---- MODULE Spec2Model ----
(***************************************************************************)
(* Coverage-tour optimisation engine (puzzle_tour_solver.mip).             *)
(*                                                                         *)
(* A vertex is its integer id (Vertex.__eq__/__lt__/__hash__ all go by     *)
(* idx).  A Coverage is the record [u, v, w, full] with u <= w, as its     *)
(* constructor normalises it.  A solution is a sequence of coverages.  A   *)
(* Python dict is a sequence of [key, val] entries in insertion order.     *)
(* Costs are integers (exact arithmetic).                                  *)
(***************************************************************************)
EXTENDS Integers, Sequences, FiniteSets, TLC

VARIABLES
    graph,      \* the CoverageGraph: [neighbors, mandatory, costs]
    solution,   \* the list handed to the operation under check / current_solution
    result,     \* what the operation returned (or raised)
    pc,         \* position of the running operation
    n,          \* LnsOptimizer.optimize: neighbourhood size
    iter,       \* LnsOptimizer.optimize: loop index i
    iterations, \* LnsOptimizer.optimize: parameter
    remaining,  \* Timer: time units left of the overall budget
    bounds      \* the pair a solve returned, as the caller names it

vars == <<graph, solution, result, pc, n, iter, iterations, remaining, bounds>>

(***************************************************************************)
(* Bounds of the model.                                                    *)
(***************************************************************************)
NumVertices == 3
MaxListLen == 3
MaxWalkLen == 4
MaxTourLen == 6
MaxOptLen == 5
MaxCost == 2
MaxLnsLen == 3
MaxMipLen == 3
MaxIter == 8
MaxTime == 2
MaxUsed == 2
MaxCutWalk == 4
MaxSetCost == 3
MaxTwoOpt == 5
MaxExtractWalk == 2

Vertices == 0 .. (NumVertices - 1)

None == 0 - 1

\* The value of result before the operation has returned.
NoResult == [status |-> "none"]

Min(a, b) == IF a <= b THEN a ELSE b
Max(a, b) == IF a >= b THEN a ELSE b

SeqsUpTo(S, k) == UNION {[1 .. m -> S] : m \in 0 .. k}

RECURSIVE SumSeq(_)
SumSeq(s) == IF s = <<>> THEN 0 ELSE Head(s) + SumSeq(Tail(s))

(***************************************************************************)
(* instance.py: Coverage                                                   *)
(***************************************************************************)
Coverage(u, v, w, full) ==
    [u |-> Min(u, w), v |-> v, w |-> Max(u, w), full |-> full]

is_u(c) == c.u = c.w

uvw(c) == <<c.u, c.v, c.w>>

\* Coverage.__contains__
contains(c, item) == item \in {c.u, c.v, c.w}

other(c, u) == IF u = c.u THEN c.w ELSE c.u

are_connected(a, b) ==
    /\ contains(b, a.v)
    /\ a.v # b.v
    /\ contains(a, b.v)
    /\ b.v # a.v

is_in_line(uvw0, uvw1, uvw2) ==
    IF ~are_connected(uvw0, uvw1) \/ ~are_connected(uvw1, uvw2)
    THEN FALSE
    ELSE \/ (uvw0.v = uvw1.u /\ uvw1.w = uvw2.v)
         \/ (uvw0.v = uvw1.w /\ uvw1.u = uvw2.v)

\* A variant that forgets the all(c.is_u() ...) half of the two-element case.
feasible_pair_connected_only(coverages) ==
    are_connected(coverages[1], coverages[2])

\* len(coverages) == 2
feasible_pair(coverages) ==
    /\ are_connected(coverages[1], coverages[2])
    /\ \A k \in 1 .. 2 : is_u(coverages[k])

\* A variant that forgets to append the first two elements.
feasible_no_wraparound(coverages) == coverages

\* coverages += [coverages[0], coverages[1]]
feasible_extended(coverages) == coverages \o <<coverages[1], coverages[2]>>

\* all(is_in_line(coverages[i - 2], coverages[i - 1], coverages[i]) ...)
feasible_cycle(coverages) ==
    LET work == feasible_extended(coverages)
    IN  \A k \in 3 .. Len(work) : is_in_line(work[k - 2], work[k - 1], work[k])

\* is_feasible_solution as a call: ret is the value returned, arg is the
\* caller's list as the call leaves it (the function works on a copy, so the
\* extension never reaches the caller).
is_feasible_call(coverages) ==
    [ret |-> IF Len(coverages) < 2 THEN FALSE
             ELSE IF Len(coverages) = 2 THEN feasible_pair(coverages)
             ELSE feasible_cycle(coverages),
     arg |-> coverages]

\* A variant that looks at the flags: True only for an all-transit list.
is_feasible_reading_flags(coverages) ==
    is_feasible_call(coverages).ret /\ \A k \in 1 .. Len(coverages) : ~coverages[k].full

is_feasible_solution(coverages) == is_feasible_call(coverages).ret

(***************************************************************************)
(* instance.py: CoverageGraph                                              *)
(***************************************************************************)
neighbors(g, v) == g.neighbors[v]

are_neighbored(g, v, w) == w \in neighbors(g, v)

mandatory(g) == g.mandatory

\* CoverageGraph.coverages(v): every pair of neighbours, the degenerate pair
\* included, with a full variant when v is mandatory.
coverages_at(g, v) ==
    {Coverage(n0, v, n1, f) :
        n0 \in neighbors(g, v), n1 \in neighbors(g, v),
        f \in (IF v \in g.mandatory THEN BOOLEAN ELSE {FALSE})}

coverages(g) == UNION {coverages_at(g, v) : v \in Vertices}

\* CoverageGraph.cost: 0 for an unregistered degenerate transit coverage.
cost(g, c) ==
    IF is_u(c) /\ ~c.full /\ c \notin DOMAIN g.costs THEN 0 ELSE g.costs[c]

obj(g, s) == SumSeq([k \in 1 .. Len(s) |-> cost(g, s[k])])

edges(g) == {<<v, w>> \in Vertices \X Vertices : v < w /\ w \in neighbors(g, v)}

(***************************************************************************)
(* coverages_to_cycle.py: SolutionConverter.  A dict is a sequence of      *)
(* [key, val] entries in insertion order; iteration takes the first match. *)
(***************************************************************************)
DictIndex(d, key) == {k \in 1 .. Len(d) : d[k].key = key}

\* A variant that stores 1 instead of counting: sol[uvw] = 1.
DictIncrNoCount(d, key) ==
    IF DictIndex(d, key) = {}
    THEN Append(d, [key |-> key, val |-> 1])
    ELSE d

\* sol[uvw] = sol.get(uvw, 0) + 1
DictIncr(d, key) ==
    IF DictIndex(d, key) = {}
    THEN Append(d, [key |-> key, val |-> 1])
    ELSE LET k == CHOOSE j \in DictIndex(d, key) : TRUE
         IN  [d EXCEPT ![k].val = @ + 1]

RECURSIVE ListToDict(_, _)
ListToDict(s, d) ==
    IF s = <<>> THEN d ELSE ListToDict(Tail(s), DictIncr(d, Head(s)))

convert_from_list_to_dict(s) == ListToDict(s, <<>>)

DictPop(d, k) == SubSeq(d, 1, k - 1) \o SubSeq(d, k + 1, Len(d))

\* The entries _extract_coverage may take: used, centred on v, touching u.
Matching(d, u, v) ==
    {k \in 1 .. Len(d) :
        d[k].val > 0 /\ d[k].key.v = v /\ (d[k].key.u = u \/ d[k].key.w = u)}

\* A variant of _extract_coverage that pops the entry whatever its value.
extract_coverage_pop_always(d, u, v) ==
    IF Matching(d, u, v) = {}
    THEN [found |-> FALSE, cov |-> None, dict |-> d]
    ELSE LET k == CHOOSE j \in Matching(d, u, v) :
                      \A j2 \in Matching(d, u, v) : j <= j2
         IN  [found |-> TRUE, cov |-> d[k].key, dict |-> DictPop(d, k)]

\* _extract_coverage: found = FALSE stands for the KeyError.
extract_coverage(d, u, v) ==
    IF Matching(d, u, v) = {}
    THEN [found |-> FALSE, cov |-> None, dict |-> d]
    ELSE LET k == CHOOSE j \in Matching(d, u, v) :
                      \A j2 \in Matching(d, u, v) : j <= j2
         IN  [found |-> TRUE, cov |-> d[k].key,
              dict |-> IF d[k].val = 1 THEN DictPop(d, k)
                       ELSE [d EXCEPT ![k].val = @ - 1]]

\* The while loop of _extract_cycle, with the assertion that follows it.
RECURSIVE extract_cycle_loop(_, _, _, _, _)
extract_cycle_loop(d, u, v, start, cycle) ==
    IF <<u, v>> = start
    THEN [status |-> IF is_feasible_solution(cycle) THEN "ok" ELSE "AssertionError",
          cycle |-> cycle, dict |-> d]
    ELSE LET e == extract_coverage(d, u, v)
         IN  IF ~e.found
             THEN [status |-> "KeyError", cycle |-> cycle, dict |-> d]
             ELSE extract_cycle_loop(e.dict, v, other(e.cov, u), start,
                                     Append(cycle, e.cov))

\* _extract_cycle: the first lookup is guarded (an empty list is returned),
\* the second is made unconditionally, the rest until the arc is start again.
extract_cycle(d, u, v) ==
    LET e1 == extract_coverage(d, u, v)
    IN  IF ~e1.found
        THEN [status |-> "ok", cycle |-> <<>>, dict |-> d]
        ELSE LET u1 == v
                 v1 == other(e1.cov, u)
                 e2 == extract_coverage(e1.dict, u1, v1)
             IN  IF ~e2.found
                 THEN [status |-> "KeyError", cycle |-> <<e1.cov>>, dict |-> e1.dict]
                 ELSE extract_cycle_loop(e2.dict, v1, other(e2.cov, u1), <<u, v>>,
                                         <<e1.cov, e2.cov>>)

\* cycle[i - 1 % len(cycle)] for a 0-based i: Python reads 1 % len first, and
\* a negative index counts from the end.  The value is a 1-based position.
PrevIndex(i, len) ==
    LET j == i - (1 % len)
    IN  IF j < 0 THEN j + len + 1 ELSE j + 1

\* The splice loop of extract_cycle_from_dict (i is 0-based, as in the code).
RECURSIVE splice_loop(_, _, _)
splice_loop(d, cycle, i) ==
    IF ~(i < Len(cycle))
    THEN [status |-> IF is_feasible_solution(cycle) THEN "ok" ELSE "AssertionError",
          cycle |-> cycle, dict |-> d]
    ELSE LET u == cycle[PrevIndex(i, Len(cycle))]
             v == cycle[i + 1]
             sub == extract_cycle(d, u.v, v.v)
         IN  IF sub.status # "ok"
             THEN [status |-> sub.status, cycle |-> cycle, dict |-> sub.dict]
             ELSE IF sub.cycle # <<>>
                  THEN splice_loop(sub.dict,
                                   SubSeq(cycle, 1, i) \o sub.cycle
                                       \o SubSeq(cycle, i + 1, Len(cycle)),
                                   i)
                  ELSE splice_loop(sub.dict, cycle, i + 1)

\* _random_used_arc: the first used entry, {} for the ValueError.
random_used_arc(d) ==
    LET used == {k \in 1 .. Len(d) : d[k].val > 0}
    IN  IF used = {} THEN {}
        ELSE LET k == CHOOSE j \in used : \A j2 \in used : j <= j2
             IN  {<<d[k].key.u, d[k].key.v>>}

extract_cycle_from_dict(d) ==
    IF random_used_arc(d) = {}
    THEN [status |-> "ValueError", cycle |-> <<>>, dict |-> d]
    ELSE LET arc == CHOOSE x \in random_used_arc(d) : TRUE
             first == extract_cycle(d, arc[1], arc[2])
         IN  IF first.status # "ok" THEN first
             ELSE splice_loop(first.dict, first.cycle, 0)

\* coverages_to_cycle / convert_from_list_to_cycle
coverages_to_cycle(s) == extract_cycle_from_dict(convert_from_list_to_dict(s))

(***************************************************************************)
(* local_optimization.py: LocalOptimizer                                   *)
(***************************************************************************)
relative_cost(g, u, v, w) ==
    cost(g, Coverage(u, v, w, TRUE)) - cost(g, Coverage(u, v, w, FALSE))

RelOf(g, c) == relative_cost(g, c.u, c.v, c.w)

\* A variant that takes max(...) instead of min(...).
worst_full(g, covs) ==
    CHOOSE k \in 1 .. Len(covs) :
        /\ \A j \in 1 .. Len(covs) : RelOf(g, covs[k]) >= RelOf(g, covs[j])
        /\ \A j \in 1 .. (k - 1) : RelOf(g, covs[j]) < RelOf(g, covs[k])

\* min(range(len(coverages)), key=relative cost): the first index of least
\* relative cost (1-based).
best_full(g, covs) ==
    CHOOSE k \in 1 .. Len(covs) :
        /\ \A j \in 1 .. Len(covs) : RelOf(g, covs[k]) <= RelOf(g, covs[j])
        /\ \A j \in 1 .. (k - 1) : RelOf(g, covs[j]) > RelOf(g, covs[k])

\* A variant that keeps the flags of a mandatory tile as they came.
optimize_tile_keep(g, tile, covs) ==
    IF tile \notin mandatory(g)
    THEN [k \in 1 .. Len(covs) |-> Coverage(covs[k].u, covs[k].v, covs[k].w, FALSE)]
    ELSE covs

optimize_tile(g, tile, covs) ==
    IF tile \notin mandatory(g)
    THEN [k \in 1 .. Len(covs) |-> Coverage(covs[k].u, covs[k].v, covs[k].w, FALSE)]
    ELSE [k \in 1 .. Len(covs) |->
            Coverage(covs[k].u, covs[k].v, covs[k].w, k = best_full(g, covs))]

\* The keys of coverages_per_tile in insertion order: the centres of the
\* solution by first occurrence.
RECURSIVE TileOrder(_, _)
TileOrder(s, seen) ==
    IF s = <<>> THEN <<>>
    ELSE IF Head(s).v \in seen THEN TileOrder(Tail(s), seen)
    ELSE <<Head(s).v>> \o TileOrder(Tail(s), seen \cup {Head(s).v})

RECURSIVE TileCoverages(_, _)
TileCoverages(s, v) ==
    IF s = <<>> THEN <<>>
    ELSE IF Head(s).v = v THEN <<Head(s)>> \o TileCoverages(Tail(s), v)
    ELSE TileCoverages(Tail(s), v)

\* sum((self.optimize_tile(graph, v, covs) for v, covs in ...), start=[])
RECURSIVE improved_solution(_, _, _)
improved_solution(g, s, tiles) ==
    IF tiles = <<>> THEN <<>>
    ELSE optimize_tile(g, Head(tiles), TileCoverages(s, Head(tiles)))
            \o improved_solution(g, s, Tail(tiles))

\* A variant of LocalOptimizer.__call__ that returns the coverages tile by
\* tile, without turning them into a cycle again.
LocalOptimizer_by_tile(g, s) ==
    [status |-> "ok", cycle |-> improved_solution(g, s, TileOrder(s, {})), dict |-> <<>>]

\* LocalOptimizer.__call__: [status, cycle, dict] as coverages_to_cycle
\* leaves them.
LocalOptimizer(g, s) ==
    coverages_to_cycle(improved_solution(g, s, TileOrder(s, {})))

(***************************************************************************)
(* Inputs: graphs, lists of coverages, closed walks.                       *)
(***************************************************************************)
CompleteNbrs == [v \in Vertices |-> Vertices \ {v}]

PathNbrs == [v \in Vertices |-> {w \in Vertices : w = v + 1 \/ v = w + 1}]

RingNbrs ==
    [v \in Vertices |->
        {w \in Vertices \ {v} : w = (v + 1) % NumVertices \/ v = (w + 1) % NumVertices}]

MandatorySets == {m \in SUBSET Vertices : Cardinality(m) >= 2}

\* A graph with every coverage registered; its cost goes by the shape of the
\* passage (U-turn or not) and by full: tab[<<is_u, full>>].
MkGraph(nbrs, mand, tab) ==
    LET g0 == [neighbors |-> nbrs, mandatory |-> mand, costs |-> <<>>]
    IN  [g0 EXCEPT !.costs = [c \in coverages(g0) |-> tab[<<is_u(c), c.full>>]]]

ZeroTab == [k \in BOOLEAN \X BOOLEAN |-> 0]

\* Every coverage value whose entry and exit differ from its centre.
PlainCoverages ==
    {Coverage(a, v, b, FALSE) : a \in Vertices, v \in Vertices, b \in Vertices} \
    {c \in [u : Vertices, v : Vertices, w : Vertices, full : BOOLEAN] :
        c.u = c.v \/ c.w = c.v}

SetFull(s, f) == [k \in 1 .. Len(s) |-> [s[k] EXCEPT !.full = f]]

CycPrev(k, len) == IF k = 1 THEN len ELSE k - 1
CycNext(k, len) == IF k = len THEN 1 ELSE k + 1

\* The closed vertex walks of length len along the edges of nbrs.
VertexWalks(nbrs, len) ==
    {q \in [1 .. len -> Vertices] :
        \A k \in 1 .. len : q[CycNext(k, len)] \in nbrs[q[k]]}

\* The solution that walks q, servicing at the positions in fullAt.
WalkSolution(q, fullAt) ==
    [k \in 1 .. Len(q) |->
        Coverage(q[CycPrev(k, Len(q))], q[k], q[CycNext(k, Len(q))], k \in fullAt)]

NumFull(s, v) == Cardinality({k \in 1 .. Len(s) : s[k].v = v /\ s[k].full})

Visited(s) == {s[k].v : k \in 1 .. Len(s)}

\* Every closed walk of 2 .. maxLen steps along nbrs with any flags.
FlaggedWalks(nbrs, maxLen) ==
    UNION {{WalkSolution(q, fa) : q \in VertexWalks(nbrs, len), fa \in SUBSET (1 .. len)} :
            len \in 2 .. maxLen}

(***************************************************************************)
(* SpecFeasible: is_feasible_solution applied to a list.                   *)
(***************************************************************************)
Idle ==
    /\ n = 0 /\ iter = 0 /\ iterations = 0 /\ remaining = 0
    /\ bounds = <<None, None>>

InitFeasible ==
    /\ pc = "start"
    /\ result = NoResult
    /\ Idle
    /\ \/ /\ graph = MkGraph(CompleteNbrs, Vertices, ZeroTab)
          /\ \E l \in SeqsUpTo(PlainCoverages, MaxListLen) :
                solution \in {l, SetFull(l, TRUE)}
       \/ /\ graph \in {MkGraph(CompleteNbrs, m, ZeroTab) : m \in MandatorySets}
          /\ solution \in FlaggedWalks(CompleteNbrs, MaxWalkLen)

FeasibleCall ==
    /\ pc = "start"
    /\ result' = [status |-> "ok", ret |-> is_feasible_solution(solution)]
    /\ solution' = is_feasible_call(solution).arg
    /\ pc' = "done"
    /\ UNCHANGED <<graph, n, iter, iterations, remaining, bounds>>

NextFeasible == FeasibleCall

SpecFeasible == InitFeasible /\ [][NextFeasible]_vars

(***************************************************************************)
(* SpecCycle: coverages_to_cycle applied to a feasible solution.           *)
(***************************************************************************)
\* The feasible solutions of g of at most maxLen steps: closed walks along
\* the edges of g that service every mandatory vertex exactly once and no
\* other vertex.
FeasibleFlags(g, q) ==
    {f \in SUBSET (1 .. Len(q)) :
        /\ \A k \in f : q[k] \in g.mandatory
        /\ \A v \in g.mandatory : Cardinality({k \in f : q[k] = v}) = 1}

FeasibleSolutions(g, maxLen) ==
    UNION {UNION {{WalkSolution(q, fa) : fa \in FeasibleFlags(g, q)} :
                    q \in VertexWalks(g.neighbors, len)} :
            len \in 2 .. maxLen}

\* One cost per shape of passage, all four different.
ShapeTab ==
    [k \in BOOLEAN \X BOOLEAN |->
        (IF k[1] THEN 1 ELSE 2) + (IF k[2] THEN 3 ELSE 0)]

InitCycle ==
    /\ pc = "start"
    /\ result = NoResult
    /\ Idle
    /\ graph \in {MkGraph(CompleteNbrs, m, ShapeTab) : m \in MandatorySets}
    /\ solution \in FeasibleSolutions(graph, MaxTourLen)

CycleCall ==
    /\ pc = "start"
    /\ result' = coverages_to_cycle(solution)
    /\ pc' = "done"
    /\ UNCHANGED <<graph, solution, n, iter, iterations, remaining, bounds>>

NextCycle == CycleCall

SpecCycle == InitCycle /\ [][NextCycle]_vars

(***************************************************************************)
(* SpecLocalOpt: LocalOptimizer applied to a feasible solution.            *)
(***************************************************************************)
\* The first k vertices mandatory, for k = 2 .. NumVertices.
MandatoryPrefixes == {0 .. k : k \in 1 .. (NumVertices - 1)}

\* Transit passages cost 1, full passages 0 .. MaxCost by shape.
FullCostTabs ==
    {[k \in BOOLEAN \X BOOLEAN |-> IF k[2] THEN (IF k[1] THEN a ELSE b) ELSE 1] :
        a \in 0 .. MaxCost, b \in 0 .. MaxCost}

InitLocalOpt ==
    /\ pc = "start"
    /\ result = NoResult
    /\ Idle
    /\ graph \in {MkGraph(CompleteNbrs, m, tab) :
                    m \in MandatoryPrefixes, tab \in FullCostTabs}
    /\ solution \in FeasibleSolutions(graph, MaxOptLen)

LocalOptCall ==
    /\ pc = "start"
    /\ result' = LocalOptimizer(graph, solution)
    /\ pc' = "done"
    /\ UNCHANGED <<graph, solution, n, iter, iterations, remaining, bounds>>

NextLocalOpt == LocalOptCall

SpecLocalOpt == InitLocalOpt /\ [][NextLocalOpt]_vars

(***************************************************************************)
(* lns.py: LnsOptimizer.  solution is LnsOptimizer.current_solution.       *)
(*                                                                         *)
(* The exact solver is external.  A sub-solve that ends with an incumbent  *)
(* yields an assignment the model admits and both separators let pass: a   *)
(* single closed walk servicing every mandatory vertex once, in which the  *)
(* coverages fixed by Model.__init__ keep their values.  Its outcome is    *)
(* otherwise a free choice.  Time passes in whole units.                   *)
(***************************************************************************)
InitialNeighborhood == 10

\* math.ceil(n * 1.25) and math.floor(n / 1.25), exactly.
grow(k) == (5 * k + 3) \div 4

shrink(k) == (4 * k) \div 5

\* Timer.is_out_of_time
is_out_of_time(left) == left <= 0

RECURSIVE Reach(_, _, _)
Reach(g, F, k) ==
    IF k = 0 THEN F
    ELSE Reach(g, F \cup UNION {neighbors(g, x) : x \in F}, k - 1)

Dist(g, v, x) ==
    CHOOSE d \in 0 .. NumVertices :
        x \in Reach(g, {v}, d) /\ (d = 0 \/ x \notin Reach(g, {v}, d - 1))

\* optimize_around: the sets bfs[:num_free] can be, over the orders in which a
\* breadth-first search from vertex may list the vertices of one layer.
bfs_prefixes(g, vertex, num_free) ==
    {F \in SUBSET Vertices :
        /\ Cardinality(F) = Min(num_free, NumVertices)
        /\ num_free >= 1 => vertex \in F
        /\ \A x \in F, y \in Vertices \ F : Dist(g, vertex, x) <= Dist(g, vertex, y)}

\* Model.__init__: fixed_vars holds the coverages of the current solution
\* centred on a fixed vertex, with their multiplicities.
fixed_vars(cur, fixed_part) == {cur[k] : k \in {j \in 1 .. Len(cur) : cur[j].v \in fixed_part}}

Count(s, c) == Cardinality({k \in 1 .. Len(s) : s[k] = c})

\* The graphs the search is run on.
LnsGraphs == {MkGraph(CompleteNbrs, m, ShapeTab) : m \in MandatoryPrefixes}

\* The graphs the whole pipeline is run on: connected, at least two mandatory
\* vertices, every coverage with a cost.
PipelineTabs ==
    {tab \in FullCostTabs : tab[<<TRUE, TRUE>>] + tab[<<FALSE, TRUE>>] = MaxCost}

PipelineGraphs ==
    {MkGraph(nb, m, tab) :
        nb \in {PathNbrs, RingNbrs, CompleteNbrs}, m \in MandatorySets, tab \in PipelineTabs}

\* For each graph the assignments the model admits, each in the order of one
\* walk.
LnsAdmitted == [g \in LnsGraphs |-> FeasibleSolutions(g, MaxLnsLen)]

\* The walks a, b, a, c, b: they pass a and b twice, once in a U-turn and
\* once going through.
RevisitingWalks(nbrs) ==
    {q \in {<<a, b, a, c, b>> : a \in Vertices, b \in Vertices, c \in Vertices} :
        /\ q[1] # q[2] /\ q[1] # q[4] /\ q[2] # q[4]
        /\ q[2] \in nbrs[q[1]] /\ q[4] \in nbrs[q[1]] /\ q[4] \in nbrs[q[2]]}

RevisitingSolutions(g) ==
    UNION {{WalkSolution(q, fa) : fa \in FeasibleFlags(g, q)} :
            q \in RevisitingWalks(g.neighbors)}

Admitted ==
    [g \in PipelineGraphs |-> FeasibleSolutions(g, MaxMipLen) \cup RevisitingSolutions(g)]

\* VariableMap: a coverage of fixed_vars is the constant of its multiplicity
\* in cur, every other coverage of the graph is a variable.  Of the
\* assignments admitted, those the sub-model has.
sub_model_solutions(cur, fixed_part, admitted) ==
    {s \in admitted :
        \A c \in fixed_vars(cur, fixed_part) : Count(s, c) = Count(cur, c)}

\* The assignments a sub-solve can end with.
sub_solve_candidates(g, cur, fixed_part) ==
    sub_model_solutions(cur, fixed_part, LnsAdmitted[g])

\* A variant of the acceptance test of optimize_neighborhood: <= for <.
accepts_not_worse(g, candidate, cur) == obj(g, candidate) <= obj(g, cur)

\* if self.graph.obj(solution) < self.graph.obj(self.current_solution)
accepts(g, candidate, cur) == obj(g, candidate) < obj(g, cur)

\* A variant of the test for "optimal solution found" that forgets n.
proved_optimal_any_n(g, k, lb, ub) == ub # None /\ lb = ub

\* n >= len(self.graph.vertices) and ub is not None and lb == ub
proved_optimal(g, k, lb, ub) == k >= NumVertices /\ ub # None /\ lb = ub

\* The update of n at the end of an iteration.
next_n(k, lb, ub) == IF ub # None /\ lb = ub THEN grow(k) ELSE shrink(k)

InitLns ==
    /\ pc = "idle"
    /\ result = NoResult
    /\ Idle
    /\ graph \in LnsGraphs
    /\ solution \in LnsAdmitted[graph]

\* LnsOptimizer.optimize is entered (it can be used several times).
LnsCall ==
    /\ pc \in {"idle", "returned"}
    /\ pc' = "loop"
    /\ n' = InitialNeighborhood
    /\ iter' = 0
    /\ iterations' = MaxIter
    /\ remaining' \in {0, MaxTime}
    /\ bounds' = <<None, None>>
    /\ result' = [status |-> "running", replaced |-> FALSE]
    /\ UNCHANGED <<graph, solution>>

\* for i in range(iterations) is exhausted.
LnsExhausted ==
    /\ pc = "loop" /\ iter >= iterations
    /\ pc' = "returned"
    /\ result' = [status |-> "ok", ret |-> FALSE]
    /\ UNCHANGED <<graph, solution, n, iter, iterations, remaining, bounds>>

\* if opt_timer.is_out_of_time(): return False
LnsOutOfTime ==
    /\ pc = "loop" /\ iter < iterations /\ is_out_of_time(remaining)
    /\ pc' = "returned"
    /\ result' = [status |-> "ok", ret |-> FALSE]
    /\ UNCHANGED <<graph, solution, n, iter, iterations, remaining, bounds>>

\* The end of an iteration whose step returned (lb, ub) and left newSol.
LnsAfterStep(lb, ub, newSol, left) ==
    /\ bounds' = <<lb, ub>>
    /\ solution' = newSol
    /\ remaining' = left
    /\ IF proved_optimal(graph, n, lb, ub)
       THEN /\ pc' = "returned"
            /\ result' = [status |-> "ok", ret |-> TRUE]
            /\ UNCHANGED <<n, iter>>
       ELSE /\ pc' = "loop"
            /\ result' = [status |-> "running", replaced |-> newSol # solution]
            /\ n' = next_n(n, lb, ub)
            /\ iter' = iter + 1
    /\ UNCHANGED <<graph, iterations>>

\* One iteration in which optimize_neighborhood gets no time: (None, None).
LnsIterationNoTime ==
    /\ pc = "loop" /\ iter < iterations /\ ~is_out_of_time(remaining)
    /\ LnsAfterStep(None, None, solution, 0)

\* One iteration whose sub-solve ends with an incumbent.
LnsIterationSolved ==
    /\ pc = "loop" /\ iter < iterations /\ ~is_out_of_time(remaining)
    /\ \E free \in UNION {bfs_prefixes(graph, solution[k].v, n) : k \in 1 .. Len(solution)} :
        \E s \in sub_solve_candidates(graph, solution, Vertices \ free) :
            \E extracted \in {coverages_to_cycle(s)} :
                \E newSol \in {IF accepts(graph, extracted.cycle, solution)
                                THEN extracted.cycle ELSE solution} :
                    \E lb \in {obj(graph, s)}, left \in {0, remaining} :
                        \E ub \in {lb} \cup {b \in {0} : b < lb} :
                            /\ extracted.status = "ok"
                            /\ LnsAfterStep(lb, ub, newSol, left)

\* One iteration whose sub-solve ends without incumbent: Model.optimize
\* returns (None, bound), which optimize_neighborhood reads as lb = None,
\* ub = bound, so it goes on to extract_solution, which has no values to read.
LnsIterationNoIncumbent ==
    /\ pc = "loop" /\ iter < iterations /\ ~is_out_of_time(remaining)
    /\ pc' = "raised"
    /\ bounds' = <<None, 0>>
    /\ result' = [status |-> "GurobiError"]
    /\ remaining' \in {0, remaining}
    /\ UNCHANGED <<graph, solution, n, iter, iterations>>

NextLns ==
    \/ LnsCall
    \/ LnsExhausted
    \/ LnsOutOfTime
    \/ LnsIterationNoTime
    \/ LnsIterationSolved
    \/ LnsIterationNoIncumbent

SpecLns == InitLns /\ [][NextLns]_vars

(***************************************************************************)
(* heuristic.py: compute_heuristic_solution                                *)
(***************************************************************************)
\* TwoOptOptimizer.optimize returns the mandatory vertices in some order.
Tours(g) ==
    {t \in [1 .. Cardinality(mandatory(g)) -> mandatory(g)] :
        \A i, j \in DOMAIN t : i # j => t[i] # t[j]}

\* nx.shortest_path(g, u, v): some simple path from u to v.
shortest_paths(g, u, v) ==
    {p \in UNION {[1 .. len -> Vertices] : len \in 2 .. NumVertices} :
        /\ p[1] = u /\ p[Len(p)] = v
        /\ \A i, j \in DOMAIN p : i # j => p[i] # p[j]
        /\ \A i \in 1 .. (Len(p) - 1) : are_neighbored(g, p[i], p[i + 1])}

\* The loop over tour[1:] that threads the tour through the graph.
RECURSIVE extended_tours(_, _, _)
extended_tours(g, extended_tour, rest) ==
    IF rest = <<>> THEN {extended_tour}
    ELSE LET u == extended_tour[Len(extended_tour)]
             v == Head(rest)
         IN  IF are_neighbored(g, u, v)
             THEN extended_tours(g, Append(extended_tour, v), Tail(rest))
             ELSE UNION {extended_tours(g, extended_tour \o Tail(path), Tail(rest)) :
                            path \in shortest_paths(g, u, v)}

\* A variant of the windows over the extended tour that services a mandatory
\* vertex at every visit.
solution_of_tour_every_visit(g, extended_tour) ==
    LET ext == Append(extended_tour, extended_tour[2])
        sol == [i \in 1 .. (Len(ext) - 2) |->
                    Coverage(ext[i], ext[i + 1], ext[i + 2], ext[i + 1] \in mandatory(g))]
    IN  [status |-> "ok", cycle |-> sol, dict |-> <<>>]

\* The windows over the extended tour, servicing a mandatory vertex at its
\* first visit, and the two assertions.
solution_of_tour(g, extended_tour) ==
    LET ext == Append(extended_tour, extended_tour[2])
        centre(i) == ext[i + 1]
        sol == [i \in 1 .. (Len(ext) - 2) |->
                    Coverage(ext[i], ext[i + 1], ext[i + 2],
                             /\ centre(i) \in mandatory(g)
                             /\ \A j \in 1 .. (i - 1) : centre(j) # centre(i))]
    IN  IF \E i \in 1 .. (Len(ext) - 2) : ext[i] = ext[i + 1] \/ ext[i + 1] = ext[i + 2]
        THEN [status |-> "AssertionError", cycle |-> <<>>, dict |-> <<>>]
        ELSE IF ~is_feasible_solution(sol)
        THEN [status |-> "AssertionError", cycle |-> <<>>, dict |-> <<>>]
        ELSE [status |-> "ok", cycle |-> sol, dict |-> <<>>]

compute_heuristic_solution(g) ==
    IF Cardinality(mandatory(g)) < 2
    THEN {[status |-> "AssertionError", cycle |-> <<>>, dict |-> <<>>]}
    ELSE {solution_of_tour(g, ext) :
            ext \in UNION {extended_tours(g, <<t[1]>>, Tail(Append(t, t[1]))) : t \in Tours(g)}}

(***************************************************************************)
(* __init__.py: optimize.  solution is initial_sol, then the solution      *)
(* returned; result holds the two bounds returned, or the exception.       *)
(***************************************************************************)
\* What lns.current_solution can be when lns.optimize returns: the initial
\* solution, or an extracted sub-solve result of lower cost.
lns_outcomes(g, initial_sol) ==
    {initial_sol} \cup
    {c.cycle : c \in {x \in {coverages_to_cycle(s) : s \in Admitted[g]} :
                        x.status = "ok" /\ accepts(g, x.cycle, initial_sol)}}

\* A variant of the out-of-time return with the two bounds exchanged.
out_of_time_return_swapped(g, sol) == [status |-> "ok", lb |-> obj(g, sol), ub |-> 0]

\* return 0, instance.obj(sol), sol
out_of_time_return(g, sol) == [status |-> "ok", lb |-> 0, ub |-> obj(g, sol)]

Init ==
    /\ pc = "start"
    /\ result = NoResult
    /\ Idle
    /\ graph \in PipelineGraphs
    /\ solution = <<>>

\* Lines 37-50: the heuristic and the first local optimization.
OptInitial ==
    /\ pc = "start"
    /\ \E h \in compute_heuristic_solution(graph) :
        \E lo \in {IF h.status = "ok" THEN LocalOptimizer(graph, h.cycle) ELSE h} :
            IF lo.status = "ok"
            THEN /\ pc' = "initial"
                 /\ solution' = lo.cycle
                 /\ remaining' \in {0, MaxTime}
                 /\ UNCHANGED result
            ELSE /\ pc' = "raised"
                 /\ result' = [status |-> lo.status]
                 /\ UNCHANGED <<solution, remaining>>
    /\ UNCHANGED <<graph, n, iter, iterations, bounds>>

\* Lines 51-53: out of time after the heuristic.
OptOutOfTimeAfterHeuristic ==
    /\ pc = "initial" /\ is_out_of_time(remaining)
    /\ pc' = "returned_after_heuristic"
    /\ result' = out_of_time_return(graph, solution)
    /\ UNCHANGED <<graph, solution, n, iter, iterations, remaining, bounds>>

\* Lines 55-70: the search, the second local optimization, out of time.
OptOutOfTimeAfterLns ==
    /\ pc = "initial" /\ ~is_out_of_time(remaining)
    /\ \E cur \in lns_outcomes(graph, solution) :
        \E lo \in {LocalOptimizer(graph, cur)} :
            IF lo.status = "ok"
            THEN /\ pc' = "returned_after_lns"
                 /\ solution' = lo.cycle
                 /\ result' = out_of_time_return(graph, lo.cycle)
            ELSE /\ pc' = "raised"
                 /\ result' = [status |-> lo.status]
                 /\ UNCHANGED solution
    /\ remaining' = 0
    /\ UNCHANGED <<graph, n, iter, iterations, bounds>>

\* Lines 55-58: a sub-solve of the search ends without incumbent.
OptLnsRaises ==
    /\ pc = "initial" /\ ~is_out_of_time(remaining)
    /\ pc' = "raised"
    /\ result' = [status |-> "GurobiError"]
    /\ remaining' \in {0, remaining}
    /\ UNCHANGED <<graph, solution, n, iter, iterations, bounds>>

\* Lines 55-79: the search, the exact solve with an incumbent of value ub
\* and bound lb, the extraction and the last local optimization.
OptSolved ==
    /\ pc = "initial" /\ ~is_out_of_time(remaining)
    /\ \E cur \in lns_outcomes(graph, solution) : LocalOptimizer(graph, cur).status = "ok"
    /\ \E s \in Admitted[graph] :
        \E sol \in {coverages_to_cycle(s)} :
            \E lo \in {IF sol.status = "ok" THEN LocalOptimizer(graph, sol.cycle) ELSE sol} :
                \E ub \in {obj(graph, s)} :
                    \E lb \in {0, ub} :
                        IF lo.status = "ok"
                        THEN /\ pc' = "returned_after_mip"
                             /\ solution' = lo.cycle
                             /\ result' = [status |-> "ok", lb |-> lb, ub |-> ub]
                        ELSE /\ pc' = "raised"
                             /\ result' = [status |-> lo.status]
                             /\ UNCHANGED solution
    /\ remaining' \in {0, remaining}
    /\ UNCHANGED <<graph, n, iter, iterations, bounds>>

\* Lines 71-72: the exact solve ends without incumbent, ub is None and the
\* comparison lb <= ub raises.
OptNoIncumbent ==
    /\ pc = "initial" /\ ~is_out_of_time(remaining)
    /\ \E cur \in lns_outcomes(graph, solution) : LocalOptimizer(graph, cur).status = "ok"
    /\ pc' = "raised"
    /\ result' = [status |-> "TypeError"]
    /\ remaining' \in {0, remaining}
    /\ UNCHANGED <<graph, solution, n, iter, iterations, bounds>>

Next ==
    \/ OptInitial
    \/ OptOutOfTimeAfterHeuristic
    \/ OptOutOfTimeAfterLns
    \/ OptLnsRaises
    \/ OptSolved
    \/ OptNoIncumbent

Spec == Init /\ [][Next]_vars

(***************************************************************************)
(* variables.py: VariableAssignment; cuts.py: ConnectSeparateComponents.   *)
(* An assignment is the list of its used coverages, each as often as its   *)
(* value; a constraint is the set of variables summed, its sense and its   *)
(* right-hand side, labelled with the component it was added for.          *)
(***************************************************************************)
\* VariableAssignment.__getitem__
value_of(sol, c) == Count(sol, c)

\* Coverage.edges
coverage_edges(c) ==
    {<<Min(c.u, c.v), Max(c.u, c.v)>>, <<Min(c.v, c.w), Max(c.v, c.w)>>}

\* VariableAssignment.used_edges
used_edges(sol) == UNION {coverage_edges(sol[k]) : k \in 1 .. Len(sol)}

\* nx.connected_components of the graph of the used edges.
RECURSIVE component_of(_, _)
component_of(E, F) ==
    LET F2 == F \cup UNION {{e[1], e[2]} : e \in {x \in E : x[1] \in F \/ x[2] \in F}}
    IN  IF F2 = F THEN F ELSE component_of(E, F2)

connected_components(E) ==
    {component_of(E, {v}) : v \in UNION {{e[1], e[2]} : e \in E}}

\* CoverageGraph.leaving
leaving(g, vertices) ==
    {c \in UNION {coverages_at(g, v) : v \in vertices} :
        c.u \notin vertices \/ c.v \notin vertices \/ c.w \notin vertices}

\* The current usage n that _prohibit_component adds up.
usage_in(g, sol, component) ==
    Cardinality({k \in 1 .. Len(sol) :
                    sol[k] \in UNION {coverages_at(g, v) : v \in component}})

\* A variant of _prohibit_component with n for n - 1.
prohibit_component_weak(g, sol, component) ==
    [component |-> component, sense |-> "<=",
     vars |-> UNION {coverages_at(g, v) : v \in component},
     rhs |-> usage_in(g, sol, component)]

\* ConnectSeparateComponents._prohibit_component
prohibit_component(g, sol, component) ==
    [component |-> component, sense |-> "<=",
     vars |-> UNION {coverages_at(g, v) : v \in component},
     rhs |-> usage_in(g, sol, component) - 1]

\* The constraint of lines 76-78.
connect_component(g, component) ==
    [component |-> component, sense |-> ">=", vars |-> leaving(g, component), rhs |-> 1]

component_has_mandatory_elements(g, component) == component \cap mandatory(g) # {}

component_misses_mandatory_elements(g, component) == mandatory(g) \ component # {}

\* A variant of the test of line 80 that spares a graph without mandatory
\* vertex.
is_useless_if_some_mandatory(g, component) ==
    ~component_has_mandatory_elements(g, component) /\ mandatory(g) # {}

\* elif not component_has_mandatory_elements
is_useless(g, component) == ~component_has_mandatory_elements(g, component)

\* The constraints the loop of lines 71-82 adds for one component.
separate_constraints(g, sol, component) ==
    IF /\ component_has_mandatory_elements(g, component)
       /\ component_misses_mandatory_elements(g, component)
    THEN {connect_component(g, component)}
    ELSE IF is_useless(g, component)
    THEN {prohibit_component(g, sol, component)}
    ELSE {}

\* ConnectSeparateComponents.cut
separate_cut(g, sol) ==
    LET components == connected_components(used_edges(sol))
        added == UNION {separate_constraints(g, sol, c) : c \in components}
    IN  IF Cardinality(components) <= 1
        THEN [status |-> "ok", ret |-> 0, constraints |-> {}]
        ELSE IF Cardinality(added) = 0
        THEN [status |-> "AssertionError", ret |-> 0, constraints |-> added]
        ELSE [status |-> "ok", ret |-> Cardinality(added), constraints |-> added]

\* The vertices and graphs the separators are run on: two vertices more
\* than Vertices, so that two components fit and leave a vertex out.
CutVertices == 0 .. (NumVertices + 1)

CutNbrs == {[v \in CutVertices |-> CutVertices \ {v}]}

CutMandatory == {{}, {0}, {0, 1}}

CutGraphs ==
    {[neighbors |-> nb, mandatory |-> m, costs |-> <<>>] : nb \in CutNbrs, m \in CutMandatory}

\* The coverages assignments are made of: the full U-turns, and the transit
\* passages, U-turn or not, through the smallest of their vertices.
cut_coverages(g) ==
    {c \in UNION {coverages_at(g, v) : v \in CutVertices} :
        (is_u(c) /\ c.full) \/ (~c.full /\ c.v < c.u)}

RECURSIVE SeqOf(_)
SeqOf(S) ==
    IF S = {} THEN <<>>
    ELSE LET x == CHOOSE y \in S : TRUE IN <<x>> \o SeqOf(S \ {x})

RECURSIVE SubsetsUpTo(_, _)
SubsetsUpTo(S, k) ==
    IF k = 0 THEN {{}}
    ELSE LET P == SubsetsUpTo(S, k - 1) IN P \cup {X \cup {x} : X \in P, x \in S}

\* Assignments of up to MaxUsed coverages, each with value 1 or each with
\* value 2.
Assignments(g) ==
    UNION {{SeqOf(U), SeqOf(U) \o SeqOf(U)} : U \in SubsetsUpTo(cut_coverages(g), MaxUsed)}

InitSeparate ==
    /\ pc = "start"
    /\ result = NoResult
    /\ Idle
    /\ graph \in CutGraphs
    /\ solution \in Assignments(graph)

SeparateCall ==
    /\ pc = "start"
    /\ result' = separate_cut(graph, solution)
    /\ pc' = "done"
    /\ UNCHANGED <<graph, solution, n, iter, iterations, remaining, bounds>>

NextSeparate == SeparateCall

SpecSeparate == InitSeparate /\ [][NextSeparate]_vars

(***************************************************************************)
(* variables.py: VariableAssignment.components, cycles;                    *)
(* cuts.py: ConnectIntersectingComponents.                                 *)
(***************************************************************************)
used_coverages(sol) == {sol[k] : k \in 1 .. Len(sol)}

\* The coverages joined to those of F by a chain of shared edges.
RECURSIVE coverage_component_of(_, _)
coverage_component_of(D, F) ==
    LET F2 == F \cup {c \in D : \E d \in F : coverage_edges(c) \cap coverage_edges(d) # {}}
    IN  IF F2 = F THEN F ELSE coverage_component_of(D, F2)

\* VariableAssignment.components
components(sol) ==
    {coverage_component_of(used_coverages(sol), {c}) : c \in used_coverages(sol)}

\* x * [uvw] for each coverage in turn: equal coverages brought together.
RECURSIVE grouped(_)
grouped(s) ==
    IF s = <<>> THEN <<>>
    ELSE LET same(c) == c = Head(s)
             differs(c) == c # Head(s)
         IN  SelectSeq(s, same) \o grouped(SelectSeq(s, differs))

\* The coverages of one component, each as often as its value.  The order of
\* the coverages is that of a Python set; the order of the assignment stands
\* for it.
component_list(sol, comp) ==
    LET in_comp(c) == c \in comp IN grouped(SelectSeq(sol, in_comp))

\* VariableAssignment.cycles: one reconstruction per component.
cycles(sol) == {coverages_to_cycle(component_list(sol, comp)) : comp \in components(sol)}

\* _get_mandatory_full_coverage: the position of the first full coverage of
\* the cycle, 0 for None.
get_mandatory_full_coverage(cycle) ==
    IF \E k \in 1 .. Len(cycle) : cycle[k].full
    THEN CHOOSE k \in 1 .. Len(cycle) :
            cycle[k].full /\ \A j \in 1 .. (k - 1) : ~cycle[j].full
    ELSE 0

get_vertices_of_component(cycle) == {cycle[k].v : k \in 1 .. Len(cycle)}

\* A variant of _get_edges_of_component that takes edges()[0] only.
get_first_edges_of_component(cycle) ==
    {<<Min(cycle[k].u, cycle[k].v), Max(cycle[k].u, cycle[k].v)>> : k \in 1 .. Len(cycle)}

get_edges_of_component(cycle) == UNION {coverage_edges(cycle[k]) : k \in 1 .. Len(cycle)}

\* A variant of _prohibit_cycle with len(cycle) for len(cycle) - 1.
prohibit_cycle_weak(cycle) ==
    [status |-> "ok", sense |-> "<=", terms |-> cycle, vars |-> used_coverages(cycle),
     rhs |-> Len(cycle)]

\* _prohibit_cycle
prohibit_cycle(cycle) ==
    [status |-> "ok", sense |-> "<=", terms |-> cycle, vars |-> used_coverages(cycle),
     rhs |-> Len(cycle) - 1]

\* _get_sum_of_leaving_coverages with the constraint of line 169.
sum_of_leaving_coverages(g, sol, cycle, reference_coverage) ==
    LET cycle_edges == get_edges_of_component(cycle)
        on_path(c) == coverage_edges(c) \cap cycle_edges # {}
        inside(c) == coverage_edges(c) \subseteq cycle_edges
        leaving_path ==
            {c \in UNION {coverages_at(g, v) :
                            v \in get_vertices_of_component(cycle) \ {reference_coverage.v}} :
                on_path(c) /\ ~inside(c)}
        other_full ==
            {c \in coverages_at(g, reference_coverage.v) : c # reference_coverage /\ c.full}
    IN  IF \E c \in leaving_path \cup other_full : value_of(sol, c) # 0
        THEN [status |-> "AssertionError", sense |-> ">=", terms |-> <<>>, vars |-> {}, rhs |-> 1]
        ELSE [status |-> "ok", sense |-> ">=", terms |-> <<>>,
              vars |-> leaving_path \cup other_full, rhs |-> 1]

\* A variant of the test of line 166: a cycle with any full coverage is let
\* pass.
holds_all_full_coverages_lax(g, cycle) ==
    Cardinality({k \in 1 .. Len(cycle) : cycle[k].full}) >= 1

\* sum(1 for uvw in cycle if uvw.full) == len(list(self.graph.mandatory()))
holds_all_full_coverages(g, cycle) ==
    Cardinality({k \in 1 .. Len(cycle) : cycle[k].full}) = Cardinality(mandatory(g))

\* The constraints the loop of lines 161-170 adds for one cycle.
intersecting_constraints(g, sol, cycle) ==
    LET ref == get_mandatory_full_coverage(cycle)
    IN  IF ref = 0 THEN {prohibit_cycle(cycle)}
        ELSE IF holds_all_full_coverages(g, cycle) THEN {}
        ELSE {sum_of_leaving_coverages(g, sol, cycle, cycle[ref])}

\* ConnectIntersectingComponents.cut
intersecting_cut(g, sol) ==
    LET reconstructed == cycles(sol)
        added == UNION {intersecting_constraints(g, sol, c.cycle) : c \in reconstructed}
    IN  IF sol = <<>>
        THEN [status |-> "ValueError", ret |-> 0, constraints |-> {}]
        ELSE IF \E c \in reconstructed : c.status # "ok"
        THEN [status |-> (CHOOSE c \in reconstructed : c.status # "ok").status,
              ret |-> 0, constraints |-> {}]
        ELSE IF Cardinality(reconstructed) = 1
        THEN [status |-> "ok", ret |-> 0, constraints |-> {}]
        ELSE IF \E c \in added : c.status # "ok"
        THEN [status |-> "AssertionError", ret |-> 0, constraints |-> {}]
        ELSE IF Cardinality(added) = 0
        THEN [status |-> "AssertionError", ret |-> 0, constraints |-> {}]
        ELSE [status |-> "ok",
              ret |-> Cardinality({c \in reconstructed :
                                    intersecting_constraints(g, sol, c.cycle) # {}}),
              constraints |-> added]

\* The graphs and assignments the separator is run on: the complete graph on
\* one vertex more than Vertices, and one closed walk, alone or together with
\* a second walk that goes back and forth along one edge, serviced once at
\* each mandatory vertex.
IntersectVertices == 0 .. NumVertices

IntersectMandatory == {{}, {0}, {0, 1}}

IntersectGraphs ==
    {[neighbors |-> [v \in IntersectVertices |-> IntersectVertices \ {v}],
      mandatory |-> m, costs |-> <<>>] : m \in IntersectMandatory}

IntersectWalks ==
    UNION {{q \in [1 .. len -> IntersectVertices] :
                \A k \in 1 .. len : q[CycNext(k, len)] # q[k]} : len \in 2 .. MaxCutWalk}

BackAndForth == {<<a, b>> : a \in IntersectVertices, b \in IntersectVertices} \cap
                {q \in [1 .. 2 -> IntersectVertices] : q[1] < q[2]}

TwoWalkSolution(q1, q2, fullAt) ==
    WalkSolution(q1, fullAt \cap (1 .. Len(q1))) \o
    WalkSolution(q2, {k - Len(q1) : k \in fullAt \ (1 .. Len(q1))})

IntersectAssignments(g) ==
    UNION {{TwoWalkSolution(q1, q2, fa) : fa \in FeasibleFlags(g, q1 \o q2)} :
              q1 \in IntersectWalks, q2 \in BackAndForth \cup {<<>>}}

InitIntersect ==
    /\ pc = "start"
    /\ result = NoResult
    /\ Idle
    /\ graph \in IntersectGraphs
    /\ solution \in IntersectAssignments(graph)

IntersectCall ==
    /\ pc = "start"
    /\ result' = intersecting_cut(graph, solution)
    /\ pc' = "done"
    /\ UNCHANGED <<graph, solution, n, iter, iterations, remaining, bounds>>

NextIntersect == IntersectCall

SpecIntersect == InitIntersect /\ [][NextIntersect]_vars

(***************************************************************************)
(* SpecSubModel: one sub-model of the search, built around a vertex of the *)
(* current solution and solved.                                            *)
(***************************************************************************)
SubModelGraphs ==
    {MkGraph(CompleteNbrs, m, tab) : m \in MandatoryPrefixes, tab \in PipelineTabs}

InitSubModel ==
    /\ pc = "start"
    /\ result = NoResult
    /\ Idle
    /\ graph \in SubModelGraphs
    /\ solution \in FeasibleSolutions(graph, MaxLnsLen)

\* optimize_around(vertex, num_free) up to the end of Model.optimize, with
\* an incumbent that is not worse than the start solution handed in.
SubModelSolve ==
    /\ pc = "start"
    /\ \E num_free \in 1 .. NumVertices, k \in 1 .. Len(solution) :
        \E free \in bfs_prefixes(graph, solution[k].v, num_free) :
            \E s \in sub_model_solutions(solution, Vertices \ free,
                                         FeasibleSolutions(graph, MaxLnsLen)) :
                /\ obj(graph, s) <= obj(graph, solution)
                /\ result' = [status |-> "ok", free |-> free, assignment |-> s]
    /\ pc' = "done"
    /\ UNCHANGED <<graph, solution, n, iter, iterations, remaining, bounds>>

NextSubModel == SubModelSolve

SpecSubModel == InitSubModel /\ [][NextSubModel]_vars

(***************************************************************************)
(* SpecReconstruct: coverages_to_cycle applied to the usage of one or two  *)
(* closed walks, whole or with one coverage taken out.                     *)
(***************************************************************************)
ReconstructMandatory == {{}, {0}}

ReconstructWalks == UNION {VertexWalks(CompleteNbrs, len) : len \in 2 .. MaxCutWalk}

ReconstructSecond == {q \in VertexWalks(CompleteNbrs, 2) : q[1] < q[2]} \cup {<<>>}

\* The list s without its k-th element.
Without(s, k) == SubSeq(s, 1, k - 1) \o SubSeq(s, k + 1, Len(s))

WholeUsages(g) ==
    UNION {{TwoWalkSolution(q1, q2, fa) : fa \in FeasibleFlags(g, q1 \o q2)} :
              q1 \in ReconstructWalks, q2 \in ReconstructSecond}

ReconstructInputs(g) ==
    WholeUsages(g) \cup UNION {{Without(s, k) : k \in 1 .. Len(s)} : s \in WholeUsages(g)}

InitReconstruct ==
    /\ pc = "start"
    /\ result = NoResult
    /\ Idle
    /\ graph \in {MkGraph(CompleteNbrs, m, ShapeTab) : m \in ReconstructMandatory}
    /\ solution \in ReconstructInputs(graph)

ReconstructCall ==
    /\ pc = "start"
    /\ result' = coverages_to_cycle(solution)
    /\ pc' = "done"
    /\ UNCHANGED <<graph, solution, n, iter, iterations, remaining, bounds>>

NextReconstruct == ReconstructCall

SpecReconstruct == InitReconstruct /\ [][NextReconstruct]_vars

(***************************************************************************)
(* model.py: the callback of Model.optimize on a new integral candidate.   *)
(***************************************************************************)
\* A variant of self._cuts with the two separators exchanged.
cuts_exchanged == <<"ConnectIntersectingComponents", "ConnectSeparateComponents">>

\* A variant of self._cuts without the second separator.
cuts_without_intersecting == <<"ConnectSeparateComponents">>

\* self._cuts
cuts == <<"ConnectSeparateComponents", "ConnectIntersectingComponents">>

\* The expression handed to model.cbLazy: its terms, one per variable added
\* to the sum (a variable as often as it was added), its sense and its
\* right-hand side.
lazy_of_component(con) == [sense |-> con.sense, terms |-> SeqOf(con.vars), rhs |-> con.rhs]

lazy_of_cycle(con) ==
    [sense |-> con.sense,
     terms |-> IF con.sense = "<=" THEN con.terms ELSE SeqOf(con.vars),
     rhs |-> con.rhs]

\* cuts.cut(sol, lambda expr: model.cbLazy(expr)) for the separator of the
\* given name.
cut_of(name, g, sol) ==
    IF name = "ConnectSeparateComponents"
    THEN CHOOSE x \in {[status |-> r.status, ret |-> r.ret,
                         lazy |-> Cardinality(r.constraints),
                         constraints |-> {lazy_of_component(c) : c \in r.constraints}] :
                           r \in {separate_cut(g, sol)}} : TRUE
    ELSE CHOOSE x \in {[status |-> r.status, ret |-> r.ret,
                         lazy |-> Cardinality(r.constraints),
                         constraints |-> {lazy_of_cycle(c) : c \in r.constraints}] :
                           r \in {intersecting_cut(g, sol)}} : TRUE

\* The candidates: as for the separator, the first walk one step shorter.
CallbackCandidates(g) ==
    UNION {{TwoWalkSolution(q1, q2, fa) : fa \in FeasibleFlags(g, q1 \o q2)} :
              q1 \in {q \in IntersectWalks : Len(q) < MaxCutWalk},
              q2 \in BackAndForth \cup {<<>>}}

InitCallback ==
    /\ pc = "start"
    /\ result = NoResult
    /\ Idle
    /\ graph \in IntersectGraphs
    /\ solution \in CallbackCandidates(graph)

\* where == GRB.Callback.MIPSOL: the candidate is read.
CallbackMipsol ==
    /\ pc = "start"
    /\ pc' = "callback"
    /\ result' = [status |-> "running", invoked |-> <<>>, lazy |-> 0, constraints |-> {}]
    /\ UNCHANGED <<graph, solution, n, iter, iterations, remaining, bounds>>

\* One round of "for cuts in self._cuts": iter separators were invoked before.
CallbackCut ==
    /\ pc = "callback" /\ iter < Len(cuts)
    /\ \E r \in {cut_of(cuts[iter + 1], graph, solution)} :
           /\ result' = [status |-> IF r.status # "ok" THEN r.status
                                    ELSE IF r.ret > 0 THEN "deferred" ELSE "running",
                         invoked |-> Append(result.invoked, cuts[iter + 1]),
                         lazy |-> result.lazy + r.lazy,
                         constraints |-> result.constraints \cup r.constraints]
           /\ pc' = IF r.status # "ok" THEN "raised"
                    ELSE IF r.ret > 0 THEN "done" ELSE "callback"
    /\ iter' = iter + 1
    /\ UNCHANGED <<graph, solution, n, iterations, remaining, bounds>>

\* The loop ends without a cut: the callback returns with nothing added.
CallbackAccept ==
    /\ pc = "callback" /\ iter >= Len(cuts)
    /\ pc' = "done"
    /\ result' = [result EXCEPT !.status = "accepted"]
    /\ UNCHANGED <<graph, solution, n, iter, iterations, remaining, bounds>>

NextCallback == CallbackMipsol \/ CallbackCut \/ CallbackAccept

SpecCallback == InitCallback /\ [][NextCallback]_vars

(***************************************************************************)
(* instance.py: CoverageGraph.set_cost, _add_edge, edges, with _neighbors  *)
(* as the lists they are.                                                  *)
(***************************************************************************)
\* A variant of _add_edge that records the edge at v only.
add_edge_one_way(nb, v, w) ==
    IF \E k \in 1 .. Len(nb[v]) : nb[v][k] = w THEN nb
    ELSE [nb EXCEPT ![v] = Append(@, w)]

\* _add_edge on the lists nb of neighbours
add_edge(nb, v, w) ==
    IF \E k \in 1 .. Len(nb[v]) : nb[v][k] = w THEN nb
    ELSE LET nb1 == [nb EXCEPT ![v] = Append(@, w)]
         IN  [nb1 EXCEPT ![w] = Append(@, v)]

\* CoverageGraph.set_cost
set_cost(g, c, x) ==
    [g EXCEPT !.neighbors = add_edge(add_edge(g.neighbors, c.u, c.v), c.v, c.w),
              !.costs = [d \in DOMAIN g.costs \cup {c} |-> IF d = c THEN x ELSE g.costs[d]]]

\* The pairs edges() yields, in the order it yields them.
RECURSIVE edges_from(_, _, _)
edges_from(g, v, k) ==
    IF v >= NumVertices THEN <<>>
    ELSE IF k > Len(g.neighbors[v]) THEN edges_from(g, v + 1, 1)
    ELSE (IF v < g.neighbors[v][k] THEN <<(<<v, g.neighbors[v][k]>>)>> ELSE <<>>)
            \o edges_from(g, v, k + 1)

edges_yielded(g) == edges_from(g, 0, 1)

InitSetCost ==
    /\ pc = "built"
    /\ result = NoResult
    /\ Idle
    /\ graph = [neighbors |-> [v \in Vertices |-> <<>>], mandatory |-> {}, costs |-> <<>>]
    /\ solution = <<>>

\* One call of set_cost, followed by a reading of edges().
SetCostCall ==
    /\ iter < MaxSetCost
    /\ \E c \in PlainCoverages, x \in {1} :
        /\ graph' = set_cost(graph, c, x)
        /\ result' = [status |-> "ok", edges |-> edges_yielded(set_cost(graph, c, x))]
    /\ iter' = iter + 1
    /\ UNCHANGED <<solution, pc, n, iterations, remaining, bounds>>

NextSetCost == SetCostCall

SpecSetCost == InitSetCost /\ [][NextSetCost]_vars

(***************************************************************************)
(* heuristic.py: TwoOptOptimizer.  graph.points is the instance (positions *)
(* 1 .. MaxTwoOpt), solution the tour of their indices, n and iter the     *)
(* loop variables j and i of optimization_step (0-based, as in the code).  *)
(***************************************************************************)
Abs(x) == IF x < 0 THEN 0 - x ELSE x

\* dist(v, w)
dist(v, w) == Abs(v[1] - w[1]) + Abs(v[2] - w[2])

\* DistMatrix.dist(i, j)
matrix_dist(points, i, j) == IF i = j THEN 0 ELSE dist(points[i], points[j])

\* TwoOptOptimizer._diff
diff(points, tour, i, j) ==
    LET i_ == PrevIndex(i, Len(tour))
        j_ == PrevIndex(j, Len(tour))
        prev_cost == matrix_dist(points, tour[i_], tour[i + 1])
                        + matrix_dist(points, tour[j_], tour[j + 1])
        changed_cost == matrix_dist(points, tour[i_], tour[j_])
                        + matrix_dist(points, tour[i + 1], tour[j + 1])
    IN  changed_cost - prev_cost

reversed(s) == [k \in 1 .. Len(s) |-> s[Len(s) + 1 - k]]

\* tour[:i] + tour[i:j][::-1] + tour[j:]
reversal(tour, i, j) ==
    SubSeq(tour, 1, i) \o reversed(SubSeq(tour, i + 1, j)) \o SubSeq(tour, j + 1, Len(tour))

\* A variant of the test of optimization_step: <= for <.
improves_or_equal(d) == d <= 0

\* if self._diff(tour, i, j) < 0
improves(d) == d < 0

\* The instances: points in a row, points on two rows, points that coincide
\* in pairs, points scattered over two rows.
Layouts ==
    {[k \in 1 .. MaxTwoOpt |-> <<k, 0>>],
     [k \in 1 .. MaxTwoOpt |-> <<k % 2, k \div 2>>],
     [k \in 1 .. MaxTwoOpt |-> <<k \div 2, 0>>],
     [k \in 1 .. MaxTwoOpt |-> <<(k * k) % 5, k % 2>>]}

Permutations1(m) ==
    {t \in [1 .. m -> 1 .. m] : \A a, b \in 1 .. m : a # b => t[a] # t[b]}

\* optimize is entered: tour is a shuffle of range(len(instance)).
InitTwoOpt ==
    /\ pc = "pass"
    /\ graph \in {[points |-> l, neighbors |-> <<>>, mandatory |-> 1 .. MaxTwoOpt,
                   costs |-> <<>>] : l \in Layouts}
    /\ solution \in Permutations1(MaxTwoOpt)
    /\ result = [status |-> "running", changed |-> FALSE, reversals |-> 0, passes |-> 0]
    /\ n = 0 /\ iter = 0 /\ iterations = 0
    /\ remaining \in {0, MaxTime}
    /\ bounds = <<None, None>>

\* One round of "for i in range(j)".
TwoOptInner ==
    /\ pc = "pass" /\ n < Len(solution) /\ iter < n
    /\ IF improves(diff(graph.points, solution, iter, n))
       THEN /\ solution' = reversal(solution, iter, n)
            /\ result' = [result EXCEPT !.changed = TRUE, !.reversals = Min(@ + 1, MaxTwoOpt)]
       ELSE UNCHANGED <<solution, result>>
    /\ iter' = iter + 1
    /\ UNCHANGED <<graph, pc, n, iterations, remaining, bounds>>

\* "for i in range(j)" is exhausted: the next j.
TwoOptNextJ ==
    /\ pc = "pass" /\ n < Len(solution) /\ iter >= n
    /\ n' = n + 1
    /\ iter' = 0
    /\ UNCHANGED <<graph, solution, result, pc, iterations, remaining, bounds>>

\* optimization_step returns (tour, changed); timelimit_watcher.check()
\* raises once the budget is used up; otherwise "while improved".
TwoOptPassEnd ==
    /\ pc = "pass" /\ n >= Len(solution)
    /\ \E left \in {remaining, Max(remaining - 1, 0)} :
        /\ remaining' = left
        /\ IF is_out_of_time(left)
           THEN /\ pc' = "returned"
                /\ result' = [result EXCEPT !.status = "timeout", !.passes = Min(@ + 1, MaxTwoOpt)]
           ELSE IF result.changed
           THEN /\ pc' = "pass"
                /\ result' = [result EXCEPT !.changed = FALSE, !.passes = Min(@ + 1, MaxTwoOpt)]
           ELSE /\ pc' = "returned"
                /\ result' = [result EXCEPT !.status = "ok", !.passes = Min(@ + 1, MaxTwoOpt)]
    /\ n' = 0
    /\ iter' = 0
    /\ UNCHANGED <<graph, solution, iterations, bounds>>

NextTwoOpt == TwoOptInner \/ TwoOptNextJ \/ TwoOptPassEnd

\* The loop runs on: no step of it waits for anything.
SpecTwoOpt == InitTwoOpt /\ [][NextTwoOpt]_vars /\ WF_vars(NextTwoOpt)

(***************************************************************************)
(* SpecHeuristic: compute_heuristic_solution on a connected graph.         *)
(***************************************************************************)
\* The closed walks the threading of a tour can give.
threaded_walks(g) ==
    UNION {extended_tours(g, <<t[1]>>, Tail(Append(t, t[1]))) : t \in Tours(g)}

\* The connected graphs the heuristic is run on: stars, the path, the ring
\* and the complete graph, with at least two mandatory vertices.
StarNbrs(c) == [v \in Vertices |-> IF v = c THEN Vertices \ {c} ELSE {c}]

HeuristicGraphs ==
    {MkGraph(nb, m, tab) :
        nb \in {StarNbrs(c) : c \in Vertices} \cup {PathNbrs, RingNbrs, CompleteNbrs},
        m \in MandatorySets, tab \in PipelineTabs}

InitHeuristic ==
    /\ pc = "start"
    /\ result = NoResult
    /\ Idle
    /\ graph \in HeuristicGraphs
    /\ solution = <<>>

\* compute_heuristic_solution(instance, timelimit); solution keeps the
\* extended tour it threaded.
HeuristicCall ==
    /\ pc = "start"
    /\ \E ext \in threaded_walks(graph) :
        /\ solution' = ext
        /\ result' = solution_of_tour(graph, ext)
    /\ pc' = "done"
    /\ UNCHANGED <<graph, n, iter, iterations, remaining, bounds>>

NextHeuristic == HeuristicCall

SpecHeuristic == InitHeuristic /\ [][NextHeuristic]_vars

(***************************************************************************)
(* model.py: the constraints of the base model, read on an assignment.     *)
(***************************************************************************)
RECURSIVE SumOver(_, _, _)
SumOver(S, weight(_), sol) ==
    IF S = {} THEN 0
    ELSE LET c == CHOOSE x \in S : TRUE
         IN  weight(c) * value_of(sol, c) + SumOver(S \ {c}, weight, sol)

\* A variant of f that counts a U-turn once.
flow_weight_once(c) == 1

\* f(uvw) of enforce_flow: 2 for a U-turn, 1 otherwise.
flow_weight(c) == IF is_u(c) THEN 2 ELSE 1

\* sum(f(uvw) for uvw in self.graph.coverages(v) if w in uvw)
flow_sum(g, sol, v, w) ==
    SumOver({c \in coverages_at(g, v) : w \in {c.u, c.v, c.w}}, flow_weight, sol)

\* Model.enforce_flow
enforce_flow(g, sol) ==
    \A e \in edges(g) : flow_sum(g, sol, e[1], e[2]) = flow_sum(g, sol, e[2], e[1])

unit_weight(c) == 1

\* Model.enforce_coverage
enforce_coverage(g, sol) ==
    \A v \in mandatory(g) :
        SumOver({c \in coverages_at(g, v) : c.full}, unit_weight, sol) = 1

\* The value of the left-hand side of a constraint under the assignment sol,
\* and whether sol satisfies the constraint.
lhs_value(con, sol) == Cardinality({k \in 1 .. Len(sol) : sol[k] \in con.vars})

satisfies(con, sol) ==
    IF con.sense = "<=" THEN lhs_value(con, sol) <= con.rhs
    ELSE lhs_value(con, sol) >= con.rhs

\* For each graph of the separator, its feasible solutions of up to MaxMipLen
\* steps.
CutFeasible == [g \in CutGraphs |-> FeasibleSolutions(g, MaxMipLen)]
(***************************************************************************)
(* lns.py, model.py: optimize_neighborhood with the result of the          *)
(* sub-solve read by Model.extract_solution.                               *)
(***************************************************************************)
\* The callback lets a candidate pass: no separator of self._cuts returns a
\* positive count.
callback_accepts(g, sol) ==
    \A k \in 1 .. Len(cuts) :
        \E r \in {cut_of(cuts[k], g, sol)} : r.status = "ok" /\ r.ret = 0

\* Model.extract_solution: cycles(), the assertion on their number, the
\* first of them.
extract_solution(sol) ==
    IF sol = <<>> THEN [status |-> "ValueError", cycle |-> <<>>]
    ELSE IF Cardinality(components(sol)) # 1
         THEN [status |-> "AssertionError", cycle |-> <<>>]
         ELSE LET r == CHOOSE x \in cycles(sol) : TRUE
              IN  [status |-> r.status, cycle |-> r.cycle]

rotated(s, k) == SubSeq(s, k + 1, Len(s)) \o SubSeq(s, 1, k)

\* Orders in which get_assignment and the set of a component may list the
\* coverages of an assignment: as given, backwards, the last two first.
orders(s) == {s, reversed(s), rotated(s, Len(s) - 2)}

\* Assignments made of one closed walk, or of one closed walk and one walk
\* back and forth along an edge, servicing every mandatory vertex once.
ExtractCandidates(g) ==
    UNION {{TwoWalkSolution(q1, q2, fa) : fa \in FeasibleFlags(g, q1 \o q2)} :
              q1 \in UNION {VertexWalks(g.neighbors, len) : len \in 2 .. MaxExtractWalk},
              q2 \in {<<>>} \cup {q \in VertexWalks(g.neighbors, 2) : q[1] < q[2]}}

\* For each graph the results a solve can end with: the integral assignments
\* of the base model that the callback lets pass, in each of their orders,
\* each with what extract_solution makes of it.
LnsOutcomes ==
    [g \in LnsGraphs |->
        {[assignment |-> s, extracted |-> extract_solution(s)] :
            s \in UNION {orders(c) :
                           c \in {c \in ExtractCandidates(g) :
                                    enforce_flow(g, c) /\ enforce_coverage(g, c)
                                        /\ callback_accepts(g, c)}}}]

\* What the sub-solves around the current solution can end with: the
\* objective value of the result and its extraction.
sub_solve_results(g, cur, n_free) ==
    UNION {{[value |-> obj(g, o.assignment), extracted |-> o.extracted] :
               o \in {o \in LnsOutcomes[g] :
                        sub_model_solutions(cur, Vertices \ free, {o.assignment}) # {}}} :
            free \in UNION {bfs_prefixes(g, cur[k].v, n_free) : k \in 1 .. Len(cur)}}

InitLnsExtract ==
    /\ pc = "idle"
    /\ result = NoResult
    /\ Idle
    /\ graph \in LnsGraphs
    /\ solution \in LnsAdmitted[graph]

\* One iteration whose sub-solve ends with an incumbent, which
\* extract_solution turns into a cycle or fails to.
LnsIterationExtract ==
    /\ pc = "loop" /\ iter < iterations /\ ~is_out_of_time(remaining)
    /\ \E r \in sub_solve_results(graph, solution, n) :
          IF r.extracted.status # "ok"
          THEN /\ pc' = "raised"
               /\ result' = [status |-> r.extracted.status]
               /\ UNCHANGED <<graph, solution, n, iter, iterations, remaining, bounds>>
          ELSE \E newSol \in {IF accepts(graph, r.extracted.cycle, solution)
                               THEN r.extracted.cycle ELSE solution} :
                  \E lb \in {r.value}, left \in {0, remaining} :
                      \E ub \in {lb} \cup {b \in {0} : b < lb} :
                          LnsAfterStep(lb, ub, newSol, left)

NextLnsExtract ==
    \/ LnsCall
    \/ LnsExhausted
    \/ LnsOutOfTime
    \/ LnsIterationNoTime
    \/ LnsIterationExtract

SpecLnsExtract == InitLnsExtract /\ [][NextLnsExtract]_vars
(***************************************************************************)
(* coverages_to_cycle.py: extract_cycle_from_dict step by step.  result    *)
(* holds the working map (dict), the cycle of the splice loop (cycle), the *)
(* list _extract_cycle is building (sub), the arc it is at (at), the arc   *)
(* it started from (start) and whether it was called for the first cycle   *)
(* (main); iter is the index i of the splice loop; solution is the         *)
(* caller's list.                                                          *)
(***************************************************************************)
ExtractGraphs == {MkGraph(CompleteNbrs, m, ShapeTab) : m \in ReconstructMandatory}

\* For each graph the lists the function is called with: the usage of one or
\* two closed walks, whole or with one coverage taken out.
ExtractInputs ==
    [g \in ExtractGraphs |->
        LET whole ==
                UNION {{TwoWalkSolution(q1, q2, fa) : fa \in FeasibleFlags(g, q1 \o q2)} :
                          q1 \in UNION {VertexWalks(CompleteNbrs, len) :
                                          len \in 2 .. (MaxExtractWalk + 1)},
                          q2 \in ReconstructSecond}
        IN  whole \cup UNION {{Without(s, k) : k \in 1 .. Len(s)} : s \in whole}]

\* SolutionConverter(): no list yet.
InitExtract ==
    /\ pc = "idle"
    /\ result = NoResult
    /\ Idle
    /\ graph = MkGraph(CompleteNbrs, {}, ShapeTab)
    /\ solution = <<>>

\* coverages_to_cycle(coverages) is called with a list of the caller.
ExtractCall ==
    /\ pc = "idle"
    /\ pc' = "start"
    /\ graph' \in ExtractGraphs
    /\ solution' \in ExtractInputs[graph']
    /\ UNCHANGED <<result, n, iter, iterations, remaining, bounds>>

\* convert_from_list_to_dict and _random_used_arc: the working state the
\* first call of _extract_cycle starts from, or the ValueError.
entered(s) ==
    LET d == convert_from_list_to_dict(s)
    IN  IF random_used_arc(d) = {}
        THEN [status |-> "ValueError", cycle |-> <<>>, sub |-> <<>>, dict |-> d,
              at |-> <<None, None>>, start |-> <<None, None>>, main |-> TRUE]
        ELSE LET arc == CHOOSE x \in random_used_arc(d) : TRUE
             IN  [status |-> "running", cycle |-> <<>>, sub |-> <<>>, dict |-> d,
                  at |-> arc, start |-> arc, main |-> TRUE]

\* entered, for each of the lists.
Entered == [s \in UNION {ExtractInputs[g] : g \in ExtractGraphs} |-> entered(s)]

ExtractEnter ==
    /\ pc = "start"
    /\ result' = Entered[solution]
    /\ pc' = IF Entered[solution].status = "running" THEN "lookup1" ELSE "raised"
    /\ UNCHANGED <<graph, solution, n, iter, iterations, remaining, bounds>>

\* The guarded first lookup of _extract_cycle: on KeyError the empty list is
\* returned, to the splice loop, which goes on to i + 1, or as the first
\* cycle.
ExtractFirstLookup ==
    /\ pc = "lookup1"
    /\ LET e == extract_coverage(result.dict, result.at[1], result.at[2])
       IN  IF e.found
           THEN /\ pc' = "lookup2"
                /\ result' = [result EXCEPT !.sub = <<e.cov>>, !.dict = e.dict,
                                            !.at = <<result.at[2], other(e.cov, result.at[1])>>]
                /\ iter' = iter
           ELSE /\ pc' = "splice"
                /\ result' = result
                /\ iter' = IF result.main THEN 0 ELSE iter + 1
    /\ UNCHANGED <<graph, solution, n, iterations, remaining, bounds>>

\* The second lookup and the lookups of the while loop of _extract_cycle: a
\* KeyError is not caught.
ExtractLookup ==
    /\ \/ pc = "lookup2"
       \/ pc = "walk" /\ result.at # result.start
    /\ LET e == extract_coverage(result.dict, result.at[1], result.at[2])
       IN  IF e.found
           THEN /\ pc' = "walk"
                /\ result' = [result EXCEPT !.sub = Append(@, e.cov), !.dict = e.dict,
                                            !.at = <<result.at[2], other(e.cov, result.at[1])>>]
           ELSE /\ pc' = "raised"
                /\ result' = [result EXCEPT !.status = "KeyError"]
    /\ UNCHANGED <<graph, solution, n, iter, iterations, remaining, bounds>>

\* The while loop of _extract_cycle ends: the assertion, then the list is
\* returned, as the first cycle or to be spliced in before position i.
ExtractCycleReturn ==
    /\ pc = "walk" /\ result.at = result.start
    /\ IF ~is_feasible_solution(result.sub)
       THEN /\ pc' = "raised"
            /\ result' = [result EXCEPT !.status = "AssertionError"]
            /\ iter' = iter
       ELSE /\ pc' = "splice"
            /\ result' = [result EXCEPT
                            !.cycle = IF result.main THEN result.sub
                                      ELSE SubSeq(result.cycle, 1, iter) \o result.sub
                                               \o SubSeq(result.cycle, iter + 1, Len(result.cycle)),
                            !.sub = <<>>]
            /\ iter' = IF result.main THEN 0 ELSE iter
    /\ UNCHANGED <<graph, solution, n, iterations, remaining, bounds>>

\* One round of "while i < len(cycle)" begins: _extract_cycle is called on
\* the arc into cycle[i].
ExtractSpliceRound ==
    /\ pc = "splice" /\ iter < Len(result.cycle)
    /\ LET u == result.cycle[PrevIndex(iter, Len(result.cycle))]
           v == result.cycle[iter + 1]
       IN  result' = [result EXCEPT !.at = <<u.v, v.v>>, !.start = <<u.v, v.v>>,
                                    !.sub = <<>>, !.main = FALSE]
    /\ pc' = "lookup1"
    /\ UNCHANGED <<graph, solution, n, iter, iterations, remaining, bounds>>

\* The splice loop ends: the last assertion, then the cycle is returned.
ExtractSpliceEnd ==
    /\ pc = "splice" /\ ~(iter < Len(result.cycle))
    /\ IF is_feasible_solution(result.cycle)
       THEN /\ pc' = "returned" /\ result' = [result EXCEPT !.status = "ok"]
       ELSE /\ pc' = "raised" /\ result' = [result EXCEPT !.status = "AssertionError"]
    /\ UNCHANGED <<graph, solution, n, iter, iterations, remaining, bounds>>

\* The steps of a call.
ExtractRun ==
    \/ ExtractEnter
    \/ ExtractFirstLookup
    \/ ExtractLookup
    \/ ExtractCycleReturn
    \/ ExtractSpliceRound
    \/ ExtractSpliceEnd

NextExtract == ExtractCall \/ ExtractRun

\* The interpreter runs a call on: every step that can be taken is taken.
SpecExtract == InitExtract /\ [][NextExtract]_vars /\ WF_vars(ExtractRun)

\* The closed-walk condition written on cyclic positions: the two ends of each
\* element are the centres of its cyclic predecessor and successor.
ClosedWalkTriples(s) ==
    \A k \in 1 .. Len(s) :
        LET prev == s[CycPrev(k, Len(s))]
            cur == s[k]
            next == s[CycNext(k, Len(s))]
        IN  \/ (cur.u = prev.v /\ cur.w = next.v)
            \/ (cur.w = prev.v /\ cur.u = next.v)

PairsConnected(s) ==
    \A k \in 1 .. Len(s) : are_connected(s[k], s[CycNext(k, Len(s))])

DegenerateMutualPair(s) ==
    /\ s[1].u = s[1].w /\ s[2].u = s[2].w
    /\ s[1].u = s[2].v /\ s[2].u = s[1].v
    /\ s[1].v # s[2].v

OneFullPerMandatory(g, s) == \A v \in mandatory(g) : NumFull(s, v) = 1

\* C2 as stated: is_feasible_solution returns true only for lists in which
\* each mandatory vertex is the centre of exactly one full coverage.
C2_AsStated ==
    (pc = "done" /\ result.ret) => OneFullPerMandatory(graph, solution)

\* C2 amended: the answer of is_feasible_solution does not depend on the full
\* flags (nor on which vertices are mandatory): it is the same for the list
\* with every flag cleared and with every flag set.
C2_FlagsIgnored ==
    pc = "done" =>
        /\ result.ret = is_feasible_solution(SetFull(solution, FALSE))
        /\ result.ret = is_feasible_solution(SetFull(solution, TRUE))

\* C2 witness: an accepted closed walk in which one mandatory vertex has no
\* full coverage and another has two.
C2_Witness ==
    /\ pc = "done" /\ result.ret
    /\ \E v \in mandatory(graph) : NumFull(solution, v) = 0
    /\ \E v \in mandatory(graph) : NumFull(solution, v) > 1

\* C3: a list of three or more coverages is accepted exactly when every
\* cyclically consecutive triple (the two wrap-around ones included) is in
\* line; then every cyclically consecutive pair is connected; and the call
\* leaves the caller's list as it was.
C3_ClosedWalk ==
    [][FeasibleCall /\ Len(solution) >= 3 =>
        /\ result'.ret <=> ClosedWalkTriples(solution)
        /\ result'.ret => PairsConnected(solution)
        /\ solution' = solution]_vars

\* C3 witness: an accepted list of four coverages.
C3_Witness == pc = "done" /\ Len(solution) = 4 /\ result.ret

\* C4: lists of length 0 and 1 are rejected; a list of length 2 is accepted
\* exactly when both coverages are degenerate and each is centred on the
\* other's entry/exit vertex.
C4_ShortLists ==
    pc = "done" =>
        /\ Len(solution) < 2 => ~result.ret
        /\ Len(solution) = 2 => (result.ret <=> DegenerateMutualPair(solution))

\* C4 witness: an accepted two-element list.
C4_Witness == pc = "done" /\ Len(solution) = 2 /\ result.ret

Rotate(s, k) == [j \in 1 .. Len(s) |-> s[((j - 1 + k) % Len(s)) + 1]]

Reverse(s) == [j \in 1 .. Len(s) |-> s[Len(s) + 1 - j]]

IsRotationOrReflection(a, b) ==
    /\ Len(a) = Len(b)
    /\ \E k \in 0 .. (Len(b) - 1) : a = Rotate(b, k) \/ a = Rotate(Reverse(b), k)

SameMultiset(a, b) ==
    /\ Len(a) = Len(b)
    /\ \A k \in 1 .. Len(b) : Count(a, b[k]) = Count(b, b[k])

IsClosedWalk(s) ==
    \/ Len(s) = 2 /\ DegenerateMutualPair(s)
    \/ Len(s) >= 3 /\ ClosedWalkTriples(s)

\* C5 as stated: reconstruction of a feasible solution returns a cyclic
\* rotation or reflection of it, with the same total cost.
C5_AsStated ==
    pc = "done" =>
        /\ result.status = "ok"
        /\ IsRotationOrReflection(result.cycle, solution)
        /\ obj(graph, result.cycle) = obj(graph, solution)

\* C5 amended: reconstruction of a feasible solution returns a closed walk
\* made of the same coverages with the same multiplicities, hence of the same
\* total cost; nothing is left in the working map.
C5_SameMultiset ==
    pc = "done" =>
        /\ result.status = "ok"
        /\ IsClosedWalk(result.cycle)
        /\ SameMultiset(result.cycle, solution)
        /\ obj(graph, result.cycle) = obj(graph, solution)
        /\ result.dict = <<>>

\* C5 witness: a reconstruction that is no rotation or reflection of its input.
C5_Witness ==
    /\ pc = "done" /\ result.status = "ok"
    /\ ~IsRotationOrReflection(result.cycle, solution)

\* C6: the solution the Local Optimizer returns costs no more than the
\* feasible solution it was given.
C6_NeverIncreases ==
    pc = "done" =>
        /\ result.status = "ok"
        /\ obj(graph, result.cycle) <= obj(graph, solution)

\* C6 witness: a call that returned a strictly cheaper solution.
C6_Witness ==
    /\ pc = "done" /\ result.status = "ok"
    /\ obj(graph, result.cycle) < obj(graph, solution)

FullAt(s, v) == {k \in 1 .. Len(s) : s[k].v = v /\ s[k].full}

\* C7: in the output every visited mandatory vertex has exactly one full
\* passage, one of least relative cost among the passages the input has at
\* that vertex; every passage at a non-mandatory vertex is transit; and the
\* passages (u, v, w) are those of the input with their multiplicities.
C7_CheapestIsFull ==
    pc = "done" =>
        /\ result.status = "ok"
        /\ \A v \in Visited(solution) :
              IF v \in mandatory(graph)
              THEN /\ Cardinality(FullAt(result.cycle, v)) = 1
                   /\ \A k \in FullAt(result.cycle, v) :
                        \A j \in 1 .. Len(solution) :
                            solution[j].v = v =>
                                RelOf(graph, result.cycle[k]) <= RelOf(graph, solution[j])
              ELSE FullAt(result.cycle, v) = {}
        /\ SameMultiset(SetFull(result.cycle, FALSE), SetFull(solution, FALSE))

\* C7 witness: the full flag of a mandatory vertex moved to a passage of
\* strictly smaller relative cost.
C7_Witness ==
    /\ pc = "done" /\ result.status = "ok"
    /\ \E v \in mandatory(graph) :
          \E k \in FullAt(result.cycle, v), j \in FullAt(solution, v) :
              RelOf(graph, result.cycle[k]) < RelOf(graph, solution[j])


\* An iteration of LnsOptimizer.optimize is about to start.
IterationStarts == pc = "loop" /\ iter < iterations /\ ~is_out_of_time(remaining)

\* C8: across the iterations of the large neighbourhood search and across
\* repeated calls of LnsOptimizer.optimize the cost of current_solution never
\* increases, and current_solution changes only to a solution of strictly
\* lower cost.
C8_NeverRegresses ==
    [][/\ obj(graph, solution') <= obj(graph, solution)
       /\ solution' # solution => obj(graph, solution') < obj(graph, solution)]_vars

\* C8 witness: an iteration has just replaced current_solution.
C8_Witness == pc = "loop" /\ result.status = "running" /\ result.replaced

\* C9: the neighbourhood size is at least 1 at the start of every iteration,
\* whatever the outcomes of the sub-solves before it were.
C9_AsStated == IterationStarts => n >= 1

\* C10: LnsOptimizer.optimize returns True exactly from an iteration in which
\* n is at least the number of vertices and the sub-solve found a solution and
\* proved it optimal; every other return (iterations exhausted, out of time at
\* a loop head) gives False and leaves current_solution as it is.
C10_ReturnValue ==
    [][pc = "loop" /\ pc' = "returned" =>
        /\ result'.ret <=> /\ IterationStarts
                           /\ n >= NumVertices
                           /\ bounds'[1] # None
                           /\ bounds'[1] = bounds'[2]
        /\ ~result'.ret => solution' = solution /\ ~IterationStarts]_vars

\* C10 witness: a call has returned True from an iteration later than its
\* first, with the neighbourhood covering every vertex and equal bounds.
C10_Witness ==
    /\ pc = "returned" /\ result.ret
    /\ iter >= 1 /\ n >= NumVertices /\ bounds[1] = bounds[2]


Returned == pc \in {"returned_after_heuristic", "returned_after_lns", "returned_after_mip"}

\* C1: on a connected graph with at least two mandatory vertices and every
\* cost registered, whichever of its three returns optimize takes, the
\* solution returned passes is_feasible_solution and has exactly one full
\* coverage centred on each mandatory vertex and none centred on any other
\* vertex.
C1_ReturnedSolution ==
    Returned =>
        /\ is_feasible_solution(solution)
        /\ \A v \in Vertices :
            NumFull(solution, v) = (IF v \in mandatory(graph) THEN 1 ELSE 0)

\* C1 witness: optimize has returned from the exact solve a solution that
\* also passes through a vertex that is not mandatory.
C1_Witness ==
    /\ pc = "returned_after_mip"
    /\ Len(solution) >= 3
    /\ Visited(solution) \ mandatory(graph) # {}


\* C11: when a sub-solve of the search ends without incumbent (Model.optimize
\* gives None with a bound), the iteration raises nothing, leaves
\* current_solution as it is, and the search goes on with the next iteration.
C11_AsStated ==
    [][IterationStarts /\ bounds'[1] = None /\ bounds'[2] # None =>
        /\ pc' = "loop"
        /\ iter' = iter + 1
        /\ solution' = solution]_vars

\* C12: when the exact solve at the end of optimize has no incumbent,
\* optimize raises neither at its assertion nor in the extraction.
C12_AsStated == ~(pc = "raised" /\ result.status = "TypeError")


\* C13: every return of optimize gives a lower bound that is at most the
\* upper bound: 0 and the cost of the solution on the two out-of-time
\* returns, the bound and the incumbent value of the exact solve on the last.
C13_BoundsOrdered == Returned => result.lb <= result.ub

\* C13 witness: optimize has returned from the exact solve with a positive
\* lower bound that meets the upper bound.
C13_Witness == pc = "returned_after_mip" /\ result.lb > 0 /\ result.lb = result.ub

\* C14: on every return of optimize the upper bound returned is the cost of
\* the solution returned.
C14_AsStated == Returned => result.ub = obj(graph, solution)


UsedComponents == connected_components(used_edges(solution))

CentredIn(component) == UNION {coverages_at(graph, v) : v \in component}

\* C15: when the used edges form two or more components, the component
\* separator adds for each component: "coverages leaving it >= 1" if it holds
\* some but not all mandatory vertices; "coverages centred in it <= current
\* usage - 1", which the current assignment violates, if it holds no
\* mandatory vertex; nothing if it holds all mandatory vertices.
C15_PerComponent ==
    pc = "done" /\ Cardinality(UsedComponents) >= 2 =>
        \A comp \in UsedComponents :
            LET added == {c \in result.constraints : c.component = comp}
                some == comp \cap graph.mandatory # {}
                all == graph.mandatory \subseteq comp
                used == Cardinality({k \in 1 .. Len(solution) : solution[k].v \in comp})
            IN  /\ some /\ ~all =>
                    /\ Cardinality(added) = 1
                    /\ \A c \in added :
                        /\ c.sense = ">=" /\ c.rhs = 1
                        /\ c.vars = {x \in CentredIn(comp) : x.u \notin comp \/ x.w \notin comp}
                /\ ~some =>
                    /\ Cardinality(added) = 1
                    /\ \A c \in added :
                        /\ c.sense = "<=" /\ c.rhs = used - 1
                        /\ c.vars = CentredIn(comp)
                        /\ Cardinality({k \in 1 .. Len(solution) : solution[k] \in c.vars}) > c.rhs
                /\ some /\ all => added = {}

\* C15 witness: two components, one with a mandatory vertex and one without,
\* while a further mandatory vertex is in neither.
C15_Witness ==
    /\ pc = "done" /\ Cardinality(UsedComponents) = 2
    /\ \E a \in UsedComponents, b \in UsedComponents :
        /\ a \cap graph.mandatory # {} /\ ~(graph.mandatory \subseteq a)
        /\ b \cap graph.mandatory = {}

\* C16: the component separator returns 0 and adds nothing when the used
\* edges form at most one component, and otherwise adds at least one
\* constraint without failing its assertion, wherever the mandatory vertices
\* are and also when there is none.
C16_CutCount ==
    pc = "done" =>
        /\ result.status = "ok"
        /\ result.ret = Cardinality(result.constraints)
        /\ Cardinality(UsedComponents) <= 1 => result.ret = 0
        /\ Cardinality(UsedComponents) >= 2 => result.ret >= 1

\* C16 witness: two components in a graph without mandatory vertex, both
\* prohibited.
C16_Witness ==
    /\ pc = "done" /\ graph.mandatory = {}
    /\ Cardinality(UsedComponents) = 2 /\ result.ret = 2

\* The edge balance of the base model: every edge is used as often from one
\* end as from the other, a U-turn counting twice.
edge_usage(sol, v, w) ==
    SumSeq([k \in 1 .. Len(sol) |->
        IF sol[k].v # v THEN 0
        ELSE (IF sol[k].u = w THEN 1 ELSE 0) + (IF sol[k].w = w THEN 1 ELSE 0)])

FlowBalanced(sol) ==
    \A k \in 1 .. Len(sol) : \A w \in {sol[k].u, sol[k].w} :
        edge_usage(sol, sol[k].v, w) = edge_usage(sol, w, sol[k].v)

\* C17: on an assignment with one full coverage per mandatory vertex and
\* balanced edges, ConnectIntersectingComponents.cut raises nothing, returns
\* 0 and adds no constraint when the reconstruction yields one cycle, and
\* adds at least one constraint when it yields more.
C17_CutProduced ==
    (pc = "done" /\ OneFullPerMandatory(graph, solution) /\ FlowBalanced(solution)) =>
        /\ result.status = "ok"
        /\ Cardinality(cycles(solution)) = 1 => (result.ret = 0 /\ result.constraints = {})
        /\ Cardinality(cycles(solution)) > 1 => (result.ret >= 1 /\ result.constraints # {})

\* Two cycles that meet in a vertex and share no edge, each holding a full
\* coverage, were cut apart.
C17_Witness ==
    /\ pc = "done"
    /\ OneFullPerMandatory(graph, solution) /\ FlowBalanced(solution)
    /\ Cardinality(cycles(solution)) = 2
    /\ \A c \in cycles(solution) : get_mandatory_full_coverage(c.cycle) # 0
    /\ \E c \in cycles(solution), d \in cycles(solution) :
            c # d /\ get_vertices_of_component(c.cycle) \cap get_vertices_of_component(d.cycle) # {}
    /\ result.status = "ok" /\ result.ret = 2

C21_AsStated ==
    pc = "done" =>
        /\ result.invoked = <<"ConnectSeparateComponents", "ConnectIntersectingComponents">>
        /\ result.status = "deferred" <=> result.lazy > 0

\* C21 amended: the component separator is invoked first; the
\* intersecting-cycle separator is invoked after it exactly when the component
\* separator added no cut; the candidate is deferred exactly when the last
\* separator invoked added a cut, and accepted otherwise.
C21_InOrderUntilCut ==
    pc = "done" =>
        /\ Len(result.invoked) >= 1
        /\ result.invoked[1] = "ConnectSeparateComponents"
        /\ Len(result.invoked) = 2 <=> separate_cut(graph, solution).ret = 0
        /\ Len(result.invoked) = 2 => result.invoked[2] = "ConnectIntersectingComponents"
        /\ result.status \in {"deferred", "accepted"}
        /\ result.status = "deferred" <=> result.lazy > 0
        /\ result.status = "deferred" <=>
              (separate_cut(graph, solution).ret > 0 \/ intersecting_cut(graph, solution).ret > 0)

\* A candidate of two cycles that meet in a vertex: the component separator
\* found nothing, the intersecting-cycle separator was invoked after it and
\* deferred the candidate.
C21_Witness ==
    /\ pc = "done"
    /\ result.invoked = <<"ConnectSeparateComponents", "ConnectIntersectingComponents">>
    /\ result.status = "deferred"
    /\ separate_cut(graph, solution).ret = 0

nbr_set(g, v) == {g.neighbors[v][k] : k \in 1 .. Len(g.neighbors[v])}

SymmetricOnceEach ==
    LET yielded == edges_yielded(graph)
    IN  /\ \A v \in Vertices, w \in Vertices :
              w \in nbr_set(graph, v) <=> v \in nbr_set(graph, w)
        /\ \A v \in Vertices, w \in Vertices :
              (v < w /\ w \in nbr_set(graph, v)) <=>
                  Cardinality({k \in 1 .. Len(yielded) : yielded[k] = <<v, w>>}) = 1
        /\ \A k \in 1 .. Len(yielded) : yielded[k][1] < yielded[k][2]

\* C22 as stated: two distinct vertices are neighbours iff some registered
\* coverage references both (as any two of u, v, w); the relation is
\* symmetric and edges() yields each pair once.
C22_AsStated ==
    /\ \A v \in Vertices : \A w \in Vertices \ {v} :
          w \in nbr_set(graph, v) <=>
              \E c \in DOMAIN graph.costs : {v, w} \subseteq {c.u, c.v, c.w}
    /\ SymmetricOnceEach

\* C22 amended: two distinct vertices are neighbours iff some registered
\* coverage has one of them as its centre v and the other as its u or w; the
\* relation is symmetric and edges() yields each pair once.
C22_CentreToEnd ==
    /\ \A v \in Vertices : \A w \in Vertices \ {v} :
          w \in nbr_set(graph, v) <=>
              \E c \in DOMAIN graph.costs :
                  \/ c.v = v /\ w \in {c.u, c.w}
                  \/ c.v = w /\ v \in {c.u, c.w}
    /\ SymmetricOnceEach

\* Coverages were registered, one of them passing from one vertex through a
\* centre to another, and the two ends are not neighbours.
C22_Witness ==
    /\ iter >= 2
    /\ \E c \in DOMAIN graph.costs : c.u # c.w /\ c.w \notin nbr_set(graph, c.u)
    /\ Len(result.edges) >= 2

\* The cyclic Manhattan length of a tour.
tour_length(points, tour) ==
    SumSeq([k \in 1 .. Len(tour) |->
        dist(points[tour[k]], points[tour[CycNext(k, Len(tour))]])])

\* C23: a reversal of tour[i:j] is applied exactly when the difference is
\* negative; an applied reversal shortens the cyclic length of the tour and
\* leaves it a permutation; the time limit ends the loop only after a whole
\* pass, and without it the loop ends only after a pass without reversal;
\* optimize returns in every run, whether or not the budget runs out.
C23_TwoOptTerminates ==
    /\ [][(pc = "pass" /\ n < Len(solution) /\ iter < n) =>
            IF diff(graph.points, solution, iter, n) < 0
            THEN solution' = reversal(solution, iter, n)
            ELSE solution' = solution]_vars
    /\ [][solution' # solution =>
            /\ tour_length(graph.points, solution') < tour_length(graph.points, solution)
            /\ solution' \in Permutations1(MaxTwoOpt)]_vars
    /\ [][pc' # pc =>
            /\ pc = "pass" /\ n >= Len(solution)
            /\ result'.status = "ok" => ~result.changed]_vars
    /\ [][(pc = "pass" /\ n >= Len(solution) /\ result.changed /\ remaining' > 0) =>
            pc' = "pass"]_vars
    /\ <>(pc = "returned")

\* optimize returned after two passes that applied a reversal and a pass that
\* applied none, with the budget not used up.
C23_Witness ==
    /\ pc = "returned" /\ result.status = "ok"
    /\ result.reversals >= 2 /\ result.passes >= 3
    /\ remaining > 0

\* C24: compute_heuristic_solution raises nothing; it emits one coverage per
\* position of the threaded closed walk, full exactly at the first emitted
\* visit of each mandatory vertex; the result has one full coverage per
\* mandatory vertex and is accepted by is_feasible_solution.
C24_FirstVisitFull ==
    pc = "done" =>
        /\ result.status = "ok"
        /\ Len(result.cycle) = Len(solution) - 1
        /\ \A k \in 1 .. Len(result.cycle) :
              /\ result.cycle[k].v = solution[k + 1]
              /\ {result.cycle[k].u, result.cycle[k].w} =
                    {solution[k], solution[IF k + 2 > Len(solution) THEN 2 ELSE k + 2]}
              /\ result.cycle[k].full <=>
                    /\ result.cycle[k].v \in mandatory(graph)
                    /\ \A j \in 1 .. (k - 1) : result.cycle[j].v # result.cycle[k].v
        /\ OneFullPerMandatory(graph, result.cycle)
        /\ \A v \in Vertices \ mandatory(graph) : NumFull(result.cycle, v) = 0
        /\ is_feasible_solution(result.cycle)

\* The threaded walk passes a mandatory vertex twice, and the solution was
\* returned.
C24_Witness ==
    /\ pc = "done" /\ result.status = "ok"
    /\ \E v \in mandatory(graph) :
          Cardinality({k \in 1 .. Len(result.cycle) : result.cycle[k].v = v}) >= 2

InGraph(g, s) == \A k \in 1 .. Len(s) : s[k] \in coverages(g)

\* C25: a list of coverages of the graph that is_feasible_solution accepts
\* satisfies the flow balance of every edge, and with one full coverage per
\* mandatory vertex the coverage constraints too: the base model admits every
\* feasible solution.
C25_FlowNecessary ==
    (pc = "done" /\ result.ret /\ InGraph(graph, solution)) =>
        /\ enforce_flow(graph, solution)
        /\ OneFullPerMandatory(graph, solution) => enforce_coverage(graph, solution)

\* A feasible solution with a U-turn at one end of an edge and a passage
\* through its other end was accepted.
C25_Witness ==
    /\ pc = "done" /\ result.ret /\ InGraph(graph, solution)
    /\ OneFullPerMandatory(graph, solution)
    /\ \E j \in 1 .. Len(solution), k \in 1 .. Len(solution) :
          /\ is_u(solution[j]) /\ ~is_u(solution[k])
          /\ solution[k].v = solution[j].u
          /\ solution[j].v \in {solution[k].u, solution[k].w}

lazy_value(con, sol) == SumSeq([k \in 1 .. Len(con.terms) |-> value_of(sol, con.terms[k])])

violated_by(con, sol) ==
    IF con.sense = "<=" THEN lazy_value(con, sol) > con.rhs
    ELSE lazy_value(con, sol) < con.rhs

\* C27: every lazy constraint a separator adds for a candidate is violated by
\* that candidate: a leaving-sum is 0 under it, a prohibit-sum exceeds its
\* right-hand side; a deferred candidate has at least one such constraint.
C27_CandidateCutOff ==
    pc = "done" =>
        /\ \A con \in result.constraints :
              /\ violated_by(con, solution)
              /\ con.sense = ">=" => lazy_value(con, solution) = 0
        /\ result.status = "deferred" => result.constraints # {}

\* The intersecting-cycle separator deferred a candidate with a prohibit-sum
\* that the candidate exceeds by exactly one.
C27_Witness ==
    /\ pc = "done" /\ result.status = "deferred"
    /\ result.invoked = cuts
    /\ \E con \in result.constraints :
          con.sense = "<=" /\ lazy_value(con, solution) = con.rhs + 1

\* C28: through any number of iterations whose sub-solves end with a result,
\* extract_solution never fails and current_solution stays a closed walk
\* that is_feasible_solution accepts, with exactly one full coverage per
\* mandatory vertex.
C28_CurrentStaysFeasible ==
    /\ pc # "raised"
    /\ is_feasible_solution(solution)
    /\ OneFullPerMandatory(graph, solution)

\* In the second iteration or later the current solution was replaced by the
\* cycle extract_solution made of a sub-solve result.
C28_Witness ==
    /\ pc = "loop" /\ iter >= 2 /\ result.replaced
    /\ \E o \in LnsOutcomes[graph] : o.extracted.cycle = solution

\* The used coverages centred on a vertex of the cycle with exactly one of
\* their two edges among the edges of the cycle.
half_on_cycle(sol, cycle) ==
    {c \in used_coverages(sol) :
        /\ c.v \in get_vertices_of_component(cycle)
        /\ coverage_edges(c) \cap get_edges_of_component(cycle) # {}
        /\ ~(coverage_edges(c) \subseteq get_edges_of_component(cycle))}

\* The used full coverages at the vertex of the reference coverage other than
\* the reference coverage.
other_full_used(sol, reference_coverage) ==
    {c \in used_coverages(sol) :
        c.v = reference_coverage.v /\ c.full /\ c # reference_coverage}

\* C29: on an assignment of the base model the separator raises nothing, and
\* for every reconstructed cycle with a reference coverage the two assertions
\* of _get_sum_of_leaving_coverages hold: no used coverage at a vertex of the
\* cycle has exactly one edge on it, no other full coverage at the reference
\* vertex is used.
C29_AssertionsHold ==
    (pc = "done" /\ enforce_flow(graph, solution) /\ enforce_coverage(graph, solution)) =>
        /\ result.status = "ok"
        /\ \A c \in cycles(solution) :
              LET ref == get_mandatory_full_coverage(c.cycle)
              IN  /\ c.status = "ok"
                  /\ half_on_cycle(solution, c.cycle) = {}
                  /\ ref # 0 =>
                        /\ other_full_used(solution, c.cycle[ref]) = {}
                        /\ sum_of_leaving_coverages(graph, solution, c.cycle,
                                                    c.cycle[ref]).status = "ok"

\* _get_sum_of_leaving_coverages returned a sum that holds a coverage leaving
\* the cycle and another full coverage at the reference vertex.
C29_Witness ==
    /\ pc = "done" /\ result.status = "ok"
    /\ enforce_flow(graph, solution) /\ enforce_coverage(graph, solution)
    /\ \E con \in result.constraints :
          /\ con.sense = ">="
          /\ \E c \in con.vars : ~c.full
          /\ \E c \in con.vars : c.full

\* The multiplicity left in a working map.
units(d) == SumSeq([k \in 1 .. Len(d) |-> d[k].val])

\* C30: extract_cycle_from_dict ends on every input, by returning or by
\* raising; every successful lookup of _extract_cycle takes exactly one unit
\* of multiplicity out of the working map and puts one coverage on the
\* list; a round of the splice loop ends with a sub-cycle of at least one
\* coverage spliced in and i unchanged, or with nothing consumed and i
\* advanced by one; the caller's list stays as it was, and the result is that
\* of coverages_to_cycle.
C30_ExtractTerminates ==
    /\ (pc = "start") ~> (pc \in {"returned", "raised"})
    /\ [][(pc \in {"lookup1", "lookup2", "walk"} /\ result'.sub # result.sub /\ pc' # "splice") =>
            /\ units(result'.dict) = units(result.dict) - 1
            /\ Len(result'.sub) = Len(result.sub) + 1]_vars
    /\ [][pc \notin {"idle", "start"} =>
            units(result'.dict) + Len(result'.sub) + Len(result'.cycle) = Len(solution)]_vars
    /\ [][(pc \in {"lookup1", "walk"} /\ pc' = "splice" /\ ~result.main) =>
            \/ /\ Len(result.sub) >= 1
               /\ Len(result'.cycle) = Len(result.cycle) + Len(result.sub)
               /\ iter' = iter
            \/ /\ result.sub = <<>>
               /\ result'.dict = result.dict /\ result'.cycle = result.cycle
               /\ iter' = iter + 1]_vars
    /\ [][pc # "idle" => solution' = solution]_vars
    /\ [][pc' \in {"returned", "raised"} =>
            /\ result'.status = coverages_to_cycle(solution).status
            /\ result'.status = "ok" => result'.cycle = coverages_to_cycle(solution).cycle]_vars

\* A call returned after a sub-cycle was spliced into the first cycle and a
\* later round found nothing to splice.
C30_Witness ==
    /\ pc = "returned" /\ result.status = "ok"
    /\ ~result.main
    /\ iter = Len(result.cycle) /\ iter = Len(solution)
    /\ \E k \in 1 .. Len(solution) : result.cycle[k] # solution[k]

====
